---- MODULE Spec2Model ----
(***************************************************************************)
(* Model of the Lazorkit starter template's transaction submission         *)
(* reliability wrapper (hooks/useSafeWallet: signAndSendWithRetry) and of   *)
(* the swap client that submits through it (demos/gasless-swap:            *)
(* handleSwap), of the completion endpoint POST /api/swap/complete, and    *)
(* of the transfer form (demos/gasless-swap: handleTransfer).               *)
(*                                                                         *)
(* JavaScript strings are sequences of one-character strings, so that      *)
(* toLowerCase and includes are computed, not assumed.  JavaScript values  *)
(* are records [kind, message, origin, hasSignature, signature].           *)
(* An async function runs atomically from one suspension point (await) to  *)
(* the next: each action below is one such run of the event loop.          *)
(***************************************************************************)
EXTENDS Integers, Sequences, FiniteSets, TLC

\* ------------------------------------------------------------------ bounds

\* Largest `attempts` of the retry policies explored.
MaxAttempts == 3

\* Number of invocations of the wrapped signAndSendTransaction that may be in
\* progress at once (one slot of local variables each).
MaxInvocations == 2

\* Number of invocations started in one behaviour.
MaxStarts == 2

\* Number of times the user changes a form field in one behaviour.
MaxEdits == 2

\* Number of clicks on the transfer button in one behaviour.
MaxClicks == 2

\* Number of completion requests the endpoint receives in one behaviour.
MaxRequests == 2

\* ------------------------------------------------------------ string data

Upper ==
    <<"A","B","C","D","E","F","G","H","I","J","K","L","M","N","O","P","Q","R","S","T","U","V","W","X","Y","Z">>
Lower ==
    <<"a","b","c","d","e","f","g","h","i","j","k","l","m","n","o","p","q","r","s","t","u","v","w","x","y","z">>

\* Messages of the errors the wrapper creates itself.
MsgTimeout ==
    <<"T","r","a","n","s","a","c","t","i","o","n"," ","s","u","b","m","i","s","s","i","o","n"," ","t","i","m","e","d"," ","o","u","t","."," ","I","t"," ","m","a","y"," ","s","t","i","l","l"," ","b","e"," ","p","r","o","c","e","s","s","i","n","g",".">>
MsgUnexpected ==
    <<"U","n","e","x","p","e","c","t","e","d"," ","w","a","l","l","e","t"," ","r","e","s","p","o","n","s","e">>
MsgRateLimitedGeneric ==
    <<"W","a","l","l","e","t"," ","s","e","r","v","i","c","e"," ","i","s"," ","t","e","m","p","o","r","a","r","i","l","y"," ","r","a","t","e"," ","l","i","m","i","t","e","d","."," ","P","l","e","a","s","e"," ","w","a","i","t"," ","a"," ","m","o","m","e","n","t"," ","a","n","d"," ","t","r","y"," ","a","g","a","i","n",".">>
MsgTransactionFailed ==
    <<"T","r","a","n","s","a","c","t","i","o","n"," ","f","a","i","l","e","d">>

\* The four substrings isRateLimited looks for.
Tok429 ==
    <<"4","2","9">>
TokRateLimit ==
    <<"r","a","t","e"," ","l","i","m","i","t">>
TokTooMany ==
    <<"t","o","o"," ","m","a","n","y"," ","r","e","q","u","e","s","t","s">>
TokThrottle ==
    <<"t","h","r","o","t","t","l","e">>

\* Messages the wallet SDK is made to fail with.
MsgHttp429 ==
    <<"H","T","T","P"," ","4","2","9">>
MsgRateLimitCaps ==
    <<"R","a","t","e"," ","L","i","m","i","t"," ","e","x","c","e","e","d","e","d">>
MsgTooManyCaps ==
    <<"T","o","o"," ","M","a","n","y"," ","R","e","q","u","e","s","t","s">>
MsgThrottled ==
    <<"R","e","q","u","e","s","t"," ","T","H","R","O","T","T","L","E","D">>
MsgInsufficient ==
    <<"I","n","s","u","f","f","i","c","i","e","n","t"," ","f","u","n","d","s">>
MsgUserRejected ==
    <<"U","s","e","r"," ","r","e","j","e","c","t","e","d">>

\* What String(v) gives for values that are not strings.
TxtObject ==
    <<"[","o","b","j","e","c","t"," ","O","b","j","e","c","t","]">>
TxtUndefined ==
    <<"u","n","d","e","f","i","n","e","d">>
TxtNull ==
    <<"n","u","l","l">>
TxtErrorPrefix ==
    <<"E","r","r","o","r",":"," ">>

\* Messages of the swap client and of the responses it receives.
MsgFailedToFetchPrice ==
    <<"F","a","i","l","e","d"," ","t","o"," ","f","e","t","c","h"," ","p","r","i","c","e">>
MsgInsufficientSol ==
    <<"I","n","s","u","f","f","i","c","i","e","n","t"," ","S","O","L"," ","b","a","l","a","n","c","e">>
MsgUnexpectedEnd ==
    <<"U","n","e","x","p","e","c","t","e","d"," ","e","n","d"," ","o","f"," ","J","S","O","N"," ","i","n","p","u","t">>
MsgFetchFailed ==
    <<"f","e","t","c","h"," ","f","a","i","l","e","d">>
MsgSwapFailed ==
    <<"S","w","a","p"," ","f","a","i","l","e","d">>
MsgInvalidPublicKey ==
    <<"I","n","v","a","l","i","d"," ","p","u","b","l","i","c"," ","k","e","y"," ","i","n","p","u","t">>
MsgNotConfirmed ==
    <<"S","O","L"," ","t","r","a","n","s","a","c","t","i","o","n"," ","n","o","t"," ","c","o","n","f","i","r","m","e","d">>
MsgNotInteger ==
    <<"T","h","e"," ","n","u","m","b","e","r"," ","N","a","N"," ","c","a","n","n","o","t"," ","b","e"," ","c","o","n","v","e","r","t","e","d"," ","t","o"," ","a"," ","B","i","g","I","n","t"," ","b","e","c","a","u","s","e"," ","i","t"," ","i","s"," ","n","o","t"," ","a","n"," ","i","n","t","e","g","e","r">>

Digits ==
    <<"0","1","2","3","4","5","6","7","8","9">>

\* Transaction identifiers the network hands out.
SigA ==
    <<"s","i","g","A">>
SigB ==
    <<"s","i","g","B">>
SigUsdc ==
    <<"s","i","g","U">>

\* ------------------------------------------------------ JavaScript values

JSValue(kind, message, origin, hasSignature, signature) ==
    [kind |-> kind, message |-> message, origin |-> origin,
     hasSignature |-> hasSignature, signature |-> signature]

\* new Error(message), created by `origin` ("wallet": the SDK, "wrapper":
\* useSafeWallet).  Two Error objects are the same object only if they agree
\* on origin as well as on message.
NewError(message, origin) == JSValue("Error", message, origin, FALSE, <<>>)

StringValue(s) == JSValue("string", s, "wallet", FALSE, <<>>)
NumberValue(digits) == JSValue("number", digits, "wallet", FALSE, <<>>)
ObjectWithSignature(sig) == JSValue("object", <<>>, "wallet", TRUE, sig)
ObjectWithoutSignature == JSValue("object", <<>>, "wallet", FALSE, <<>>)
Null == JSValue("null", <<>>, "wallet", FALSE, <<>>)
Undefined == JSValue("undefined", <<>>, "wallet", FALSE, <<>>)

instanceofError(v) == v.kind = "Error"

\* typeof v: null is an object to typeof.
typeof(v) ==
    CASE v.kind = "string" -> "string"
      [] v.kind = "number" -> "number"
      [] v.kind = "undefined" -> "undefined"
      [] OTHER -> "object"

\* String(v)
String(v) ==
    CASE v.kind = "string" -> v.message
      [] v.kind = "number" -> v.message
      [] v.kind = "Error" -> TxtErrorPrefix \o v.message
      [] v.kind = "null" -> TxtNull
      [] v.kind = "undefined" -> TxtUndefined
      [] OTHER -> TxtObject

LowerChar(c) ==
    IF \E k \in 1..Len(Upper) : Upper[k] = c
    THEN Lower[CHOOSE k \in 1..Len(Upper) : Upper[k] = c]
    ELSE c

\* s.toLowerCase()
toLowerCase(s) == [k \in 1..Len(s) |-> LowerChar(s[k])]

\* s.includes(sub)
includes(s, sub) ==
    \E k \in 0..(Len(s) - Len(sub)) : SubSeq(s, k + 1, k + Len(sub)) = sub

\* ------------------------------------------------------------ retry policy

\* config/lazorkit: the shipped policy.
TX_RETRY_POLICY == [attempts |-> 3, backoffMs |-> 1500, timeoutMs |-> 60000]

\* The policy is a static configuration object; the wrapper reads its three
\* fields and nothing else, so the model lets the object be any of these.
Policies ==
    [attempts : 1..MaxAttempts,
     backoffMs : {1000, TX_RETRY_POLICY.backoffMs},
     timeoutMs : {TX_RETRY_POLICY.timeoutMs}]

RECURSIVE pow(_, _)
\* Math.pow(b, e) for a non-negative integer e
pow(b, e) == IF e = 0 THEN 1 ELSE b * pow(b, e - 1)

isRateLimited_NoLowerCase(err) ==
    IF ~instanceofError(err) THEN FALSE
    ELSE LET msg == err.message
         IN  \/ includes(msg, Tok429)
             \/ includes(msg, TokRateLimit)
             \/ includes(msg, TokTooMany)
             \/ includes(msg, TokThrottle)

isRateLimited(err) ==
    IF ~instanceofError(err) THEN FALSE
    ELSE LET msg == toLowerCase(err.message)
         IN  \/ includes(msg, Tok429)
             \/ includes(msg, TokRateLimit)
             \/ includes(msg, TokTooMany)
             \/ includes(msg, TokThrottle)


\* ------------------------------------------------- useSafeWallet: helpers

\* The browser's timer table.  A timer is [id, inv, kind, remaining]:
\* `remaining` is the time left until it fires, `inv` the invocation whose
\* code armed it, `kind` "timeout" (the race's timer) or "backoff" (wait()).
setTimeout_Never(table, id, inv, kind, ms) == table

setTimeout(table, id, inv, kind, ms) ==
    table \cup {[id |-> id, inv |-> inv, kind |-> kind, remaining |-> ms]}

clearTimeout(table, id) == {t \in table : t.id # id}

\* The value of a timeoutId that was never assigned.
NoTimer == <<>>

\* Lines 492 and 510: if (timeoutId) clearTimeout(timeoutId)
ClearAttemptTimer_Leak(table, id) == table

ClearAttemptTimer(table, id) ==
    IF id # NoTimer THEN clearTimeout(table, id) ELSE table

\* Lines 512-515: what the catch block records as lastError.
RecordedError(err) ==
    IF instanceofError(err) THEN err ELSE NewError(String(err), "wrapper")

\* Lines 522-525: retry only a rate-limited failure that is not the last attempt.
ShouldRetry_Always(err, att, pol) == att < pol.attempts - 1

ShouldRetry(err, att, pol) ==
    isRateLimited(err) /\ att < pol.attempts - 1

\* Lines 526-527: the delay handed to wait().
BackoffDelay_Constant(att, pol) == pol.backoffMs

BackoffDelay_None(att, pol) == 0

BackoffDelay(att, pol) == pol.backoffMs * pow(2, att)

\* Lines 498-508: the resolved value, normalised.  [ok, value]: returned when
\* ok, thrown (into the attempt's own catch block) when not.
NormalizeResult_Raw(result) == [ok |-> TRUE, value |-> result]

NormalizeResult_AnyObject(result) ==
    IF typeof(result) = "string" THEN [ok |-> TRUE, value |-> result]
    ELSE IF typeof(result) = "object"
    THEN [ok |-> TRUE,
          value |-> IF result.hasSignature THEN StringValue(result.signature)
                    ELSE Undefined]
    ELSE [ok |-> FALSE, value |-> NewError(MsgUnexpected, "wrapper")]

NormalizeResult(result) ==
    IF typeof(result) = "string" THEN [ok |-> TRUE, value |-> result]
    ELSE IF typeof(result) = "object" /\ result # Null /\ result.hasSignature
    THEN [ok |-> TRUE, value |-> StringValue(result.signature)]
    ELSE [ok |-> FALSE, value |-> NewError(MsgUnexpected, "wrapper")]

\* Lines 545-551: the error thrown after the loop.
FinalError_Raw(last) ==
    IF last = Null THEN NewError(MsgTransactionFailed, "wrapper") ELSE last

FinalError(last) ==
    IF isRateLimited(last) THEN NewError(MsgRateLimitedGeneric, "wrapper")
    ELSE IF last = Null THEN NewError(MsgTransactionFailed, "wrapper")
    ELSE last

\* Lines 552-554: the flag after the finally block; `threw` tells the exit path.
AfterFinally_OnlyOnSuccess(threw) == threw

AfterFinally(threw) == FALSE

\* ---------------------------------------------------------------- state

VARIABLES
    policy,        \* TX_RETRY_POLICY as the wrapper reads it
    isSubmitting,  \* useState(false) of the hook instance
    timers,        \* the timer table
    started,       \* invocations started so far
    pc,            \* per invocation: idle, racing, backoff, returned, thrown
    serial,        \* per invocation: which start it is (0: never started)
    attempt,       \* per invocation: the loop variable
    timeoutId,     \* per invocation: the attempt's timeoutId
    lastError,     \* per invocation: lastError
    outcome,       \* per invocation: what the promise settled with
    log,           \* per invocation: one entry per attempt
    elapsed,       \* per invocation: time since it was invoked
    \* GaslessSwap
    env,           \* useWallet(), the balance hook and the pool address
    solAmount,     \* useState('')
    quote,         \* useState(null)
    txState,       \* useState('idle')
    txSig,         \* useState(null)
    error,         \* useState(null)
    debounceAmount,\* the amount captured by the pending debounce callback
    quoteReqs,     \* GET /api/swap requests in flight, with the amount captured
    hs,            \* per handleSwap call: where it is suspended, what it captured
    edits,         \* changes of the amount field so far
    \* POST /api/swap/complete
    pool,          \* POOL_KEYPAIR_BASE64, POOL_SOL_WALLET, POOL_USDC_ACCOUNT
    landed,        \* signatures the network reports as confirmed
    accounts,      \* token accounts that exist on the network
    sent,          \* batches handed to sendAndConfirmTransaction, in order
    req,           \* per request: where POST is suspended, its locals, its response
    \* GaslessTransfer
    gt             \* the form's state, its alerts, and per handleTransfer call what it captured

walletVars ==
    <<policy, isSubmitting, timers, started, pc, serial, attempt, timeoutId,
      lastError, outcome, log, elapsed>>

swapVars ==
    <<env, solAmount, quote, txState, txSig, error, debounceAmount, quoteReqs,
      hs, edits>>

serverVars == <<pool, landed, accounts, sent, req>>

transferVars == <<gt>>

clientVars == <<walletVars, swapVars, transferVars>>

vars == <<walletVars, swapVars, serverVars, transferVars>>

Inv == 1..MaxInvocations

Active(i) == pc[i] \in {"racing", "backoff"}

Finished(i) == pc[i] \in {"returned", "thrown"}

NoOutcome == [status |-> "none", value |-> Undefined]

\* Values wallet.signAndSendTransaction resolves with.
ResolveValues ==
    {StringValue(SigA), ObjectWithSignature(SigB), ObjectWithoutSignature,
     Null, Undefined}

\* Values wallet.signAndSendTransaction rejects with.
RejectValues ==
    {NewError(MsgHttp429, "wallet"), NewError(MsgRateLimitCaps, "wallet"),
     NewError(MsgTooManyCaps, "wallet"), NewError(MsgThrottled, "wallet"),
     NewError(MsgInsufficient, "wallet"),
     StringValue(Tok429), StringValue(MsgUserRejected)}

TimeoutError == NewError(MsgTimeout, "wrapper")

WalletInit ==
    /\ policy \in Policies
    /\ isSubmitting = FALSE
    /\ timers = {}
    /\ started = 0
    /\ pc = [i \in Inv |-> "idle"]
    /\ serial = [i \in Inv |-> 0]
    /\ attempt = [i \in Inv |-> 0]
    /\ timeoutId = [i \in Inv |-> NoTimer]
    /\ lastError = [i \in Inv |-> Null]
    /\ outcome = [i \in Inv |-> NoOutcome]
    /\ log = [i \in Inv |-> <<>>]
    /\ elapsed = [i \in Inv |-> 0]

\* -------------------------------------------- signAndSendWithRetry: steps

\* Lines 466-490: arm the attempt's timer, start the underlying call, and
\* suspend on the race.  `s` is the invocation's serial, `a` the attempt,
\* `table` the timer table and `entries` the log as the caller leaves them.
BeginAttempt(i, s, a, table, entries, at, flag) ==
    /\ timeoutId' = [timeoutId EXCEPT ![i] = <<s, a, "timeout">>]
    /\ timers' = setTimeout(table, <<s, a, "timeout">>, i, "timeout", policy.timeoutMs)
    /\ log' = [log EXCEPT ![i] =
                 Append(entries,
                        [call |-> "pending", how |-> "pending", value |-> Undefined,
                         start |-> at, end |-> -1, wait |-> -1,
                         submitting |-> flag])]
    /\ attempt' = [attempt EXCEPT ![i] = a]
    /\ pc' = [pc EXCEPT ![i] = "racing"]

\* Lines 541-554: leave the loop without a result, throw, run finally.
ThrowFinal(i, last, table, entries) ==
    /\ outcome' = [outcome EXCEPT ![i] = [status |-> "thrown", value |-> FinalError(last)]]
    /\ isSubmitting' = AfterFinally(TRUE)
    /\ timers' = table
    /\ log' = [log EXCEPT ![i] = entries]
    /\ pc' = [pc EXCEPT ![i] = "thrown"]
    /\ UNCHANGED <<attempt, timeoutId>>

\* Lines 509-538: the attempt's catch block, entered with `err`; `table` is the
\* timer table and `entry` the attempt's log entry when the block is entered.
Catch(i, err, table, entry) ==
    LET cleared == ClearAttemptTimer(table, timeoutId[i])
        last == RecordedError(err)
        n == Len(log[i])
    IN  /\ lastError' = [lastError EXCEPT ![i] = last]
        /\ IF ShouldRetry(err, attempt[i], policy)
           THEN LET delay == BackoffDelay(attempt[i], policy)
                IN  /\ timers' = setTimeout(cleared, <<serial[i], attempt[i], "backoff">>,
                                            i, "backoff", delay)
                    /\ log' = [log EXCEPT ![i][n] = [entry EXCEPT !.wait = delay]]
                    /\ pc' = [pc EXCEPT ![i] = "backoff"]
                    /\ UNCHANGED <<isSubmitting, outcome, attempt, timeoutId>>
           ELSE ThrowFinal(i, last, cleared, [log[i] EXCEPT ![n] = entry])

\* Lines 453-490: the call itself, up to the first await.
Invoke(i) ==
    /\ pc[i] \in {"idle", "returned", "thrown"}
    /\ started < MaxStarts
    /\ started' = started + 1
    /\ serial' = [serial EXCEPT ![i] = started + 1]
    /\ lastError' = [lastError EXCEPT ![i] = Null]
    /\ elapsed' = [elapsed EXCEPT ![i] = 0]
    /\ IF 0 < policy.attempts
       THEN /\ isSubmitting' = TRUE
            /\ outcome' = [outcome EXCEPT ![i] = NoOutcome]
            /\ BeginAttempt(i, started + 1, 0, timers, <<>>, 0, TRUE)
       ELSE ThrowFinal(i, Null, timers, <<>>)
    /\ UNCHANGED policy

\* A caller that never has two invocations in progress.
InvokeAlone(i) ==
    /\ \A j \in Inv : ~Active(j)
    /\ i = 1
    /\ Invoke(i)

\* Lines 487-508: the underlying call resolves with `v` and wins the race.
UnderlyingResolves(i, v) ==
    /\ pc[i] = "racing"
    /\ LET n == Len(log[i])
           entry == [log[i][n] EXCEPT !.call = "resolved", !.how = "resolved",
                                      !.value = v, !.end = elapsed[i]]
           cleared == ClearAttemptTimer(timers, timeoutId[i])
           norm == NormalizeResult(v)
       IN  IF norm.ok
           THEN /\ outcome' = [outcome EXCEPT ![i] = [status |-> "returned", value |-> norm.value]]
                /\ isSubmitting' = AfterFinally(FALSE)
                /\ timers' = cleared
                /\ log' = [log EXCEPT ![i][n] = entry]
                /\ pc' = [pc EXCEPT ![i] = "returned"]
                /\ UNCHANGED <<lastError, attempt, timeoutId>>
           ELSE Catch(i, norm.value, cleared, entry)
    /\ UNCHANGED <<policy, started, serial, elapsed>>

\* Lines 487-490, 509-538: the underlying call rejects with `e` and wins the race.
UnderlyingRejects(i, e) ==
    /\ pc[i] = "racing"
    /\ LET n == Len(log[i])
           entry == [log[i][n] EXCEPT !.call = "rejected", !.how = "rejected",
                                      !.value = e, !.end = elapsed[i]]
       IN  Catch(i, e, timers, entry)
    /\ UNCHANGED <<policy, started, serial, elapsed>>

\* Lines 473-481, 509-538: a timer armed by line 474 fires and rejects its
\* timeout promise.  If the invocation is suspended on that race, the race
\* rejects and the catch block runs, the underlying call being left pending;
\* otherwise nobody awaits the promise and the rejection changes nothing.
TimeoutFires(i) ==
    /\ \E t \in timers :
         /\ t.inv = i /\ t.kind = "timeout" /\ t.remaining = 0
         /\ IF pc[i] = "racing" /\ t.id = timeoutId[i]
            THEN LET n == Len(log[i])
                     entry == [log[i][n] EXCEPT !.how = "timeout",
                                                !.value = TimeoutError,
                                                !.end = elapsed[i]]
                 IN  Catch(i, TimeoutError, timers \ {t}, entry)
            ELSE /\ timers' = timers \ {t}
                 /\ UNCHANGED <<isSubmitting, pc, attempt, timeoutId, lastError,
                                outcome, log>>
    /\ UNCHANGED <<policy, started, serial, elapsed>>

\* Lines 529-530, 465: wait() is over; continue with the next attempt.
BackoffElapsed(i) ==
    /\ pc[i] = "backoff"
    /\ \E t \in timers :
         /\ t.inv = i /\ t.kind = "backoff" /\ t.remaining = 0
         /\ IF attempt[i] + 1 < policy.attempts
            THEN /\ BeginAttempt(i, serial[i], attempt[i] + 1, timers \ {t}, log[i], elapsed[i],
                                 isSubmitting)
                 /\ UNCHANGED <<isSubmitting, outcome>>
            ELSE ThrowFinal(i, lastError[i], timers \ {t}, log[i])
    /\ UNCHANGED <<policy, started, serial, elapsed, lastError>>

\* An underlying call that lost the race to the timer settles later: the
\* wrapper no longer listens.
OrphanSettles(i) ==
    /\ pc[i] # "racing"
    /\ \E k \in 1..Len(log[i]) :
         /\ log[i][k].call = "pending"
         /\ \E how \in {"resolved", "rejected"} :
              log' = [log EXCEPT ![i][k].call = how]
    /\ UNCHANGED <<policy, isSubmitting, timers, started, pc, serial, attempt,
                   timeoutId, lastError, outcome, elapsed>>

MinRemaining == CHOOSE d \in {t.remaining : t \in timers} :
                    \A t \in timers : d <= t.remaining

\* Time passes until the next timer is due.  No timer fires early, and time
\* does not pass a timer that is due.
AdvanceTime ==
    /\ timers # {}
    /\ MinRemaining > 0
    /\ timers' = {[t EXCEPT !.remaining = t.remaining - MinRemaining] : t \in timers}
    /\ elapsed' = [i \in Inv |-> IF Active(i) THEN elapsed[i] + MinRemaining ELSE elapsed[i]]
    /\ UNCHANGED <<policy, isSubmitting, started, pc, serial, attempt, timeoutId,
                   lastError, outcome, log>>

\* --------------------------------------------------- GaslessSwap: helpers

\* Natural numbers of any size, as the sequence of their digits in base
\* 2^15, lowest first and without leading zeros: what the 53-bit significand
\* arithmetic of a double needs.
Limb == 32768

RECURSIVE Big(_)
Big(n) == IF n = 0 THEN <<>> ELSE <<n % Limb>> \o Big(n \div Limb)

\* a without its leading zero limbs
Trim(a) ==
    SubSeq(a, 1, IF \A i \in 1..Len(a) : a[i] = 0 THEN 0
                 ELSE CHOOSE i \in 1..Len(a) :
                          a[i] # 0 /\ \A j \in (i + 1)..Len(a) : a[j] = 0)

\* Limb i of a, the lowest being limb 1.
At(a, i) == IF i \in 1..Len(a) THEN a[i] ELSE 0

\* a + b + c for c in 0..1.  A carry enters limb i when a lower limb j
\* overflows and every limb between them is full.
BigAdd(a, b, c) ==
    LET s(i) == IF i = 0 THEN c * Limb ELSE At(a, i) + At(b, i)
        carry(i) == \E j \in 0..(i - 1) :
                        s(j) >= Limb /\ \A k \in (j + 1)..(i - 1) : s(k) = Limb - 1
    IN  IF a = <<>> /\ c = 0 THEN b
        ELSE IF b = <<>> /\ c = 0 THEN a
        ELSE Trim([i \in 1..((IF Len(a) > Len(b) THEN Len(a) ELSE Len(b)) + 1) |->
                      (s(i) + (IF carry(i) THEN 1 ELSE 0)) % Limb])

\* a - b for a >= b.  Limb i lends when a lower limb j falls short and every
\* limb between them is 0.
BigSub(a, b) ==
    LET d(i) == At(a, i) - At(b, i)
        lends(i) == \E j \in 1..(i - 1) :
                        d(j) < 0 /\ \A k \in (j + 1)..(i - 1) : d(k) = 0
    IN  IF b = <<>> THEN a
        ELSE Trim([i \in 1..Len(a) |->
                      (d(i) - (IF lends(i) THEN 1 ELSE 0) + Limb) % Limb])

\* a * k + c for k, c below 2^15
MulAdd(a, k, c) ==
    IF a = <<>> \/ k = 0 THEN Trim(<<c>>)
    ELSE BigAdd(Trim([i \in 1..Len(a) |-> (a[i] * k) % Limb]),
                Trim(<<c>> \o [i \in 1..Len(a) |-> (a[i] * k) \div Limb]), 0)

\* -1, 0, 1 as a < b, a = b, a > b
BigCmp(a, b) ==
    IF Len(a) # Len(b) THEN (IF Len(a) < Len(b) THEN 0 - 1 ELSE 1)
    ELSE LET d == {i \in 1..Len(a) : a[i] # b[i]}
         IN  IF d = {} THEN 0
             ELSE IF \E k \in d : a[k] < b[k] /\ \A j \in d : j <= k
             THEN 0 - 1 ELSE 1

\* a * b, by halves of b
RECURSIVE BigMul(_, _)
BigMul(a, b) ==
    IF a = <<>> \/ b = <<>> THEN <<>>
    ELSE IF Len(b) = 1 THEN MulAdd(a, b[1], 0)
    ELSE BigAdd(BigMul(a, Trim(SubSeq(b, 1, Len(b) \div 2))),
                [i \in 1..(Len(b) \div 2) |-> 0]
                \o BigMul(a, SubSeq(b, Len(b) \div 2 + 1, Len(b))), 0)

TwoTo == [k \in 0..15 |-> pow(2, k)]

\* The number of binary digits of a.
BitLen(a) ==
    IF a = <<>> THEN 0
    ELSE (Len(a) - 1) * 15
         + (CHOOSE k \in 1..15 : TwoTo[k - 1] <= a[Len(a)] /\ a[Len(a)] < TwoTo[k])

\* a * 2^k
BigShl(a, k) ==
    IF a = <<>> THEN <<>>
    ELSE [i \in 1..(k \div 15) |-> 0] \o MulAdd(a, TwoTo[k % 15], 0)

\* floor(a / 2^k)
BigShr(a, k) ==
    IF Len(a) <= k \div 15 THEN <<>>
    ELSE Trim([i \in 1..(Len(a) - k \div 15) |->
                 (a[i + k \div 15] \div TwoTo[k % 15])
                 + (IF i + k \div 15 < Len(a)
                    THEN (a[i + k \div 15 + 1] % TwoTo[k % 15]) * TwoTo[15 - (k % 15)]
                    ELSE 0)])

\* Binary digit i of a, the lowest being digit 0.
Bit(a, i) ==
    IF Len(a) <= i \div 15 THEN 0 ELSE (a[i \div 15 + 1] \div TwoTo[i % 15]) % 2

\* Whether the k lowest binary digits of a are all 0.
LowZero(a, k) ==
    /\ \A i \in 1..(k \div 15) : i > Len(a) \/ a[i] = 0
    /\ Len(a) <= k \div 15 \/ a[k \div 15 + 1] % TwoTo[k % 15] = 0

\* One digit of a long division in base 2^15: the quotient and remainder of
\* x by b for x < b * 2^15, by trying k, k - 1, ... for a k that is not below
\* the quotient.
RECURSIVE DivDigit(_, _, _)
DivDigit(b, x, k) ==
    IF BigCmp(MulAdd(b, k, 0), x) > 0 THEN DivDigit(b, x, k - 1)
    ELSE [quotient |-> k, remainder |-> BigSub(x, MulAdd(b, k, 0))]

\* The quotient of the two highest limbs of x by the highest of b, 2^15 - 1
\* at most: the quotient of x by b or more, and at most 2 more if the highest
\* limb of b is 2^14 or more.
Guess(b, x) ==
    CHOOSE k \in {Limb - 1, (At(x, Len(b) + 1) * Limb + At(x, Len(b))) \div b[Len(b)]} :
        /\ k <= Limb - 1
        /\ k <= (At(x, Len(b) + 1) * Limb + At(x, Len(b))) \div b[Len(b)]

\* Long division by b of the number whose limbs are r, above, and limbs
\* j down to 1 of a, below, for r < b; one limb of a at a time: x is what
\* limb j is divided in, d its division.
RECURSIVE DivLimbs(_, _, _, _, _)
RECURSIVE DivNext(_, _, _, _, _)
RECURSIVE DivStep(_, _, _, _, _)
DivLimbs(a, b, j, q, r) ==
    IF j = 0 THEN [quotient |-> Trim(q), remainder |-> r]
    ELSE DivStep(a, b, j, q, Trim(<<a[j]>> \o r))

DivStep(a, b, j, q, x) ==
    IF BigCmp(x, b) < 0 THEN DivLimbs(a, b, j - 1, <<0>> \o q, x)
    ELSE DivNext(a, b, j, q, DivDigit(b, x, Guess(b, x)))

DivNext(a, b, j, q, d) == DivLimbs(a, b, j - 1, <<d.quotient>> \o q, d.remainder)

\* floor(a / b) and a mod b for b > 0 whose highest limb is 2^14 or more.
\* The limbs of a above the length of b are less than b and start the
\* remainder.
Divide(a, b) ==
    IF Len(a) < Len(b) THEN [quotient |-> <<>>, remainder |-> a]
    ELSE DivLimbs(a, b, Len(a) - Len(b) + 1, <<>>,
                  Trim(SubSeq(a, Len(a) - Len(b) + 2, Len(a))))

\* The division d of a * 2^k by b * 2^k as the division of a by b.
Unscaled(d, k) == [quotient |-> d.quotient, remainder |-> BigShr(d.remainder, k)]

\* The division of a by a divisor b of one limb, limb by limb from the top:
\* limbs j and below are left, q holds the quotient's limbs above j and r the
\* remainder so far.
RECURSIVE DivSmall(_, _, _, _, _)
DivSmall(a, b, j, q, r) ==
    IF j = 0 THEN [quotient |-> Trim(q), remainder |-> Trim(<<r>>)]
    ELSE DivSmall(a, b, j - 1, <<(r * Limb + a[j]) \div b>> \o q, (r * Limb + a[j]) % b)

\* floor(a / b) and a mod b for b > 0
BigDivMod(a, b) ==
    IF Len(b) = 1 THEN DivSmall(a, b[1], Len(a), <<>>, 0)
    ELSE Unscaled(Divide(BigShl(a, 15 * Len(b) - BitLen(b)),
                         BigShl(b, 15 * Len(b) - BitLen(b))),
                  15 * Len(b) - BitLen(b))

Square(a) == BigMul(a, a)

RECURSIVE TenToBig(_)
TenToBig(n) ==
    IF n = 0 THEN <<1>>
    ELSE IF n % 2 = 1 THEN MulAdd(TenToBig(n - 1), 10, 0)
    ELSE Square(TenToBig(n \div 2))

\* JavaScript numbers are IEEE 754 doubles: NaN, an infinity, or
\* (-1)^neg * mant * 2^exp with mant odd (a zero has mant 0 and keeps its
\* sign).  Every operation below gives the exact result rounded to the nearest
\* double, ties to the even significand, as the code's arithmetic does.
NotANumber ==
    [nan |-> TRUE, inf |-> FALSE, neg |-> FALSE, mant |-> <<>>, exp |-> 0]

Infinite(neg) ==
    [nan |-> FALSE, inf |-> TRUE, neg |-> neg, mant |-> <<>>, exp |-> 0]

\* (-1)^neg * m * 2^e, exactly
Finite(neg, m, e) ==
    IF m = <<>>
    THEN [nan |-> FALSE, inf |-> FALSE, neg |-> neg, mant |-> <<>>, exp |-> 0]
    ELSE LET z == CHOOSE k \in 0..BitLen(m) : Bit(m, k) = 1 /\ LowZero(m, k)
         IN  [nan |-> FALSE, inf |-> FALSE, neg |-> neg,
              mant |-> BigShr(m, z), exp |-> e + z]

\* Rounding keeps 53 significant binary digits and none below 2^-1074: how
\* many low digits of n * 2^e it drops.
Drop(n, e) ==
    CHOOSE d \in {BitLen(n) - 53, (0 - 1074) - e, 0} :
        d >= BitLen(n) - 53 /\ d >= (0 - 1074) - e /\ d >= 0

\* Whether dropping the drop low digits of n + f rounds up: more than half a
\* unit is dropped, or half a unit and the digit kept above it is odd.
RoundsUp(n, drop, sticky) ==
    /\ drop > 0
    /\ Bit(n, drop - 1) = 1
    /\ (sticky \/ ~LowZero(n, drop - 1) \/ Bit(n, drop) = 1)

\* (-1)^neg * r * 2^e for r of at most 53 digits: an infinity from 2^1024 on.
Rounded(neg, r, e) ==
    IF BitLen(r) + e > 1024 THEN Infinite(neg) ELSE Finite(neg, r, e)

RoundAt(neg, n, e, sticky, drop) ==
    Rounded(neg, BigAdd(BigShr(n, drop), <<>>,
                        IF RoundsUp(n, drop, sticky) THEN 1 ELSE 0), e + drop)

\* The double nearest to (-1)^neg * (n + f) * 2^e, where 0 < f < 1 if sticky
\* and f = 0 if not, ties to the even significand.
Round(neg, n, e, sticky) ==
    IF n = <<>> THEN Finite(neg, <<>>, 0)
    ELSE RoundAt(neg, n, e, sticky, Drop(n, e))

RoundQuotient(neg, d, e) == Round(neg, d.quotient, e, d.remainder # <<>>)

\* The double nearest to (-1)^neg * (p / q) * 2^e, for q > 0: the quotient of
\* p * 2^s by q has 55 binary digits or more.
RatioAt(neg, p, q, e, s) ==
    RoundQuotient(neg, BigDivMod(BigShl(p, IF s > 0 THEN s ELSE 0),
                                 BigShl(q, IF s < 0 THEN 0 - s ELSE 0)), e - s)

RoundRatio(neg, p, q, e) ==
    IF p = <<>> THEN Finite(neg, <<>>, 0)
    ELSE IF q = <<1>> THEN Round(neg, p, e, FALSE)
    ELSE RatioAt(neg, p, q, e, 55 + BitLen(q) - BitLen(p))

\* The number n / d for integers n and d > 0.
Fraction(n, d) == RoundRatio(n < 0, Big(IF n < 0 THEN 0 - n ELSE n), Big(d), 0)

IsZero(a) == ~a.nan /\ ~a.inf /\ a.mant = <<>>

\* a * b
Times(a, b) ==
    IF a.nan \/ b.nan THEN NotANumber
    ELSE IF a.inf \/ b.inf
    THEN (IF IsZero(a) \/ IsZero(b) THEN NotANumber ELSE Infinite(a.neg # b.neg))
    ELSE Round(a.neg # b.neg, BigMul(a.mant, b.mant), a.exp + b.exp, FALSE)

\* a / b
Over(a, b) ==
    IF a.nan \/ b.nan \/ (a.inf /\ b.inf) \/ (IsZero(a) /\ IsZero(b))
    THEN NotANumber
    ELSE IF a.inf \/ IsZero(b) THEN Infinite(a.neg # b.neg)
    ELSE IF b.inf THEN Finite(a.neg # b.neg, <<>>, 0)
    ELSE RoundRatio(a.neg # b.neg, a.mant, b.mant, a.exp - b.exp)

\* Math.floor(a)
MathFloor(a) ==
    IF a.nan \/ a.inf \/ a.exp >= 0 THEN a
    ELSE Finite(a.neg, BigAdd(BigShr(a.mant, 0 - a.exp), <<>>,
                              IF a.neg THEN 1 ELSE 0), 0)

\* -1, 0, 1 as a < b, a = b, a > b, for numbers other than NaN
Compare(a, b) ==
    LET sgn(x) == IF IsZero(x) THEN 0 ELSE IF x.neg THEN 0 - 1 ELSE 1
        top(x) == BitLen(x.mant) + x.exp
        low == IF a.exp < b.exp THEN a.exp ELSE b.exp
        size == IF a.inf \/ b.inf
                THEN (IF a.inf /\ b.inf THEN 0 ELSE IF a.inf THEN 1 ELSE 0 - 1)
                ELSE IF top(a) # top(b)
                THEN (IF top(a) < top(b) THEN 0 - 1 ELSE 1)
                ELSE BigCmp(BigShl(a.mant, a.exp - low), BigShl(b.mant, b.exp - low))
    IN  IF sgn(a) # sgn(b) THEN (IF sgn(a) < sgn(b) THEN 0 - 1 ELSE 1)
        ELSE IF sgn(a) = 0 THEN 0
        ELSE sgn(a) * size

\* The integer n
Num(n) == Finite(n < 0, Big(IF n < 0 THEN 0 - n ELSE n), 0)

\* 10 ** n
TenTo(n) == Num(pow(10, n))

NaN == NotANumber

DigitValue(c) == (CHOOSE k \in 1..Len(Digits) : Digits[k] = c) - 1

IsDigit(c) == \E k \in 1..Len(Digits) : Digits[k] = c

WhiteSpace == {" ", "\t", "\n", "\r", "\f"}

InfinityText == <<"I","n","f","i","n","i","t","y">>

\* The scan of a string for the unsigned decimal literal it starts with,
\* character by character.  A literal is digits[.[digits]] or .digits,
\* followed or not by e or E, an optional sign and digits.  The scan keeps
\* the digits of the mantissa as a natural number, how many there are and how
\* many after the point, the exponent, and the length of the longest literal
\* seen.
RECURSIVE Scan(_, _)
Scan(s, st) ==
    IF s = <<>> THEN st
    ELSE LET c == s[1]
             on == [st EXCEPT !.seen = @ + 1]
         IN  IF st.phase = "int" /\ IsDigit(c)
             THEN Scan(Tail(s), [on EXCEPT !.digits = @ + 1,
                                           !.mantissa = MulAdd(@, 10, DigitValue(c)),
                                           !.length = on.seen])
             ELSE IF st.phase = "int" /\ c = "."
             THEN Scan(Tail(s), [on EXCEPT !.phase = "frac",
                                           !.length = IF st.digits > 0 THEN on.seen
                                                      ELSE @])
             ELSE IF st.phase = "frac" /\ IsDigit(c)
             THEN Scan(Tail(s), [on EXCEPT !.digits = @ + 1, !.places = @ + 1,
                                           !.mantissa = MulAdd(@, 10, DigitValue(c)),
                                           !.length = on.seen])
             ELSE IF st.phase \in {"int", "frac"} /\ st.digits > 0 /\ c \in {"e", "E"}
             THEN Scan(Tail(s), [on EXCEPT !.phase = "mark"])
             ELSE IF st.phase = "mark" /\ c \in {"+", "-"}
             THEN Scan(Tail(s), [on EXCEPT !.phase = "esign", !.down = (c = "-")])
             ELSE IF st.phase \in {"mark", "esign", "exp"} /\ IsDigit(c)
             THEN Scan(Tail(s), [on EXCEPT !.phase = "exp",
                                           !.exponent = IF @ >= 100000 THEN @
                                                        ELSE 10 * @ + DigitValue(c),
                                           !.length = on.seen])
             ELSE st

\* The double nearest to (-1)^neg * m * 10^k, where m has at most digits
\* decimal digits: an infinity from 10^310 on, a zero below 10^-330.
Decimal(neg, m, digits, k) ==
    IF k > 310 /\ m # <<>> THEN Infinite(neg)
    ELSE RoundRatio(neg,
                    IF digits + k < 0 - 330 THEN <<>>
                    ELSE BigMul(m, TenToBig(IF k > 0 THEN k ELSE 0)),
                    TenToBig(IF k < 0 /\ digits + k >= 0 - 330 THEN 0 - k ELSE 0), 0)

\* The literal a scan has found after from characters, none if st has no
\* digits.
Literal(neg, from, st) ==
    IF st.digits = 0 THEN [length |-> 0, value |-> NotANumber]
    ELSE [length |-> from + st.length,
          value |-> Decimal(neg, st.mantissa, st.digits,
                            (IF st.down THEN 0 - st.exponent ELSE st.exponent)
                            - st.places)]

\* The unsigned numeral that follows the first from characters of s.
Unsigned(s, from, neg) ==
    IF Len(s) - from >= 8 /\ SubSeq(s, from + 1, from + 8) = InfinityText
    THEN [length |-> from + 8, value |-> Infinite(neg)]
    ELSE Literal(neg, from,
                 Scan(SubSeq(s, from + 1, Len(s)),
                      [phase |-> "int", digits |-> 0, mantissa |-> <<>>,
                       places |-> 0, down |-> FALSE, exponent |-> 0,
                       seen |-> 0, length |-> 0]))

\* The numeral that follows the lead white space characters s starts with.
Signed(s, lead) ==
    Unsigned(s, IF lead < Len(s) /\ s[lead + 1] \in {"+", "-"} THEN lead + 1 ELSE lead,
             lead < Len(s) /\ s[lead + 1] = "-")

\* The numeric literal a string starts with, after any white space: how many
\* characters it takes, white space included, and its value; a string that
\* starts with none has length 0.
LeadingNumeral(s) ==
    Signed(s, CHOOSE n \in 0..Len(s) :
                  /\ \A i \in 1..n : s[i] \in WhiteSpace
                  /\ n = Len(s) \/ s[n + 1] \notin WhiteSpace)

\* parseFloat(s): the number the string starts with, or NaN.
parseFloat(s) == LeadingNumeral(s).value

\* The digits of 0x, 0o and 0b literals.
RadixDigits ==
    <<"0","1","2","3","4","5","6","7","8","9","a","b","c","d","e","f">>

RadixOf == [x |-> 16, X |-> 16, o |-> 8, O |-> 8, b |-> 2, B |-> 2]

\* The value of a digit in a radix, -1 for a character that is none.
RadixValue(c, radix) ==
    IF \E k \in 1..radix : RadixDigits[k] = LowerChar(c)
    THEN (CHOOSE k \in 1..radix : RadixDigits[k] = LowerChar(c)) - 1
    ELSE 0 - 1

\* The number the digits s denote in a radix.
RECURSIVE RadixBig(_, _)
RadixBig(s, radix) ==
    IF s = <<>> THEN <<>>
    ELSE MulAdd(RadixBig(SubSeq(s, 1, Len(s) - 1), radix), radix,
                RadixValue(s[Len(s)], radix))

\* s without the white space at its ends
TrimText(s) ==
    SubSeq(s, CHOOSE i \in 1..(Len(s) + 1) :
                  /\ \A j \in 1..(i - 1) : s[j] \in WhiteSpace
                  /\ i = Len(s) + 1 \/ s[i] \notin WhiteSpace,
              CHOOSE i \in 0..Len(s) :
                  /\ \A j \in (i + 1)..Len(s) : s[j] \in WhiteSpace
                  /\ i = 0 \/ s[i] \notin WhiteSpace)

\* The value of a numeral if it is all of t, NaN if not.
Whole(t, numeral) ==
    IF numeral.length = Len(t) THEN numeral.value ELSE NotANumber

\* Number(t) for t without white space at its ends.
NumberOfText(t) ==
    IF t = <<>> THEN Finite(FALSE, <<>>, 0)
    ELSE IF /\ Len(t) >= 3
            /\ t[1] = "0"
            /\ t[2] \in DOMAIN RadixOf
            /\ \A i \in 3..Len(t) : RadixValue(t[i], RadixOf[t[2]]) >= 0
    THEN Round(FALSE, RadixBig(SubSeq(t, 3, Len(t)), RadixOf[t[2]]), 0, FALSE)
    ELSE Whole(t, LeadingNumeral(t))

\* Number(s): the number the whole string denotes, white space at its ends
\* aside; 0 for an empty string, NaN for anything else.
NumberOf(s) == NumberOfText(TrimText(s))

\* The decimal digits of a natural number, none for 0; d is the division of
\* the number by 10.
RECURSIVE DigitsOf(_)
RECURSIVE DigitsAfter(_)
DigitsOf(n) == IF n = <<>> THEN <<>> ELSE DigitsAfter(BigDivMod(n, <<10>>))

DigitsAfter(d) == DigitsOf(d.quotient) \o <<Digits[At(d.remainder, 1) + 1]>>

\* all, the digits of an integer, with the point before the last f of them.
PointAt(all, f) ==
    SubSeq(all, 1, Len(all) - f)
    \o (IF f > 0 THEN <<".">> \o SubSeq(all, Len(all) - f + 1, Len(all)) ELSE <<>>)

\* Zeros before the digits ds up to f + 1 digits.
Pad(ds, f) == [i \in 1..(f + 1 - Len(ds)) |-> "0"] \o ds

\* x.toFixed(f) for |x| < 10^21: the integer n nearest to |x| * 10^f, the
\* larger one of two, written with f digits after the point.  With
\* |x| = m * 2^e, n is floor((m * 10^f * 2^(e+1) + 1) / 2).
toFixed(x, f) ==
    IF x.nan THEN <<"N","a","N">>
    ELSE IF x.inf THEN (IF x.neg THEN <<"-">> ELSE <<>>) \o InfinityText
    ELSE (IF x.neg /\ ~IsZero(x) THEN <<"-">> ELSE <<>>)
         \o PointAt(Pad(DigitsOf(
                BigShr(BigAdd(BigShl(BigMul(x.mant, TenToBig(f)),
                                     IF x.exp > 0 THEN x.exp + 1 ELSE 1),
                              BigShl(<<1>>, IF x.exp < 0 THEN 0 - x.exp ELSE 0), 0),
                       IF x.exp < 0 THEN 1 - x.exp ELSE 1)), f), f)

\* BigInt(x) throws a RangeError for a number that is not an integer; of the
\* numbers Math.floor returns these are NaN and the infinities.
BigIntThrows(x) == x.nan \/ x.inf

\* The message of that RangeError: MsgNotInteger with the number's text.
NotIntegerText(x) ==
    IF x.nan THEN MsgNotInteger
    ELSE SubSeq(MsgNotInteger, 1, 11)
         \o (IF x.neg THEN <<"-">> ELSE <<>>) \o InfinityText
         \o SubSeq(MsgNotInteger, 15, Len(MsgNotInteger))

\* a <= b, a > b and a * b on JavaScript numbers: comparisons with NaN are false.
NumLeq(a, b) == ~a.nan /\ ~b.nan /\ Compare(a, b) <= 0

NumGt(a, b) == ~a.nan /\ ~b.nan /\ Compare(a, b) > 0

NumTimes(a, b) == Times(a, b)

\* Lines 47 and 77: !amount || parseFloat(amount) <= 0
NoAmount(amount) == amount = <<>> \/ NumLeq(parseFloat(amount), Num(0))

NoQuote == [present |-> FALSE, rate |-> NaN, usdcAmount |-> NaN]

\* Lines 61-65: the quote fetchQuote stores.
MakeQuote(amount, solPrice) ==
    [present |-> TRUE, rate |-> solPrice,
     usdcAmount |-> NumTimes(parseFloat(amount), solPrice)]

\* Line 91: parseFloat(solAmount) > solBalance
ExceedsBalance_Unchecked(amount, balance) == FALSE

ExceedsBalance(amount, balance) == NumGt(parseFloat(amount), balance)

\* Line 99: Math.floor(parseFloat(solAmount) * 1_000_000_000)
Lamports(amount) == MathFloor(NumTimes(parseFloat(amount), Num(1000000000)))

\* Lines 102-106: SystemProgram.transfer converts lamports with BigInt(), which
\* throws a RangeError for NaN and the infinities.
TransferThrows(lamports) == BigIntThrows(lamports)

NoBody == [sent |-> FALSE, userWallet |-> "none", solAmount |-> NaN,
           solTxSignature |-> Undefined]

\* Lines 115-123: the body of the POST to /api/swap/complete.
CompletionBody_StaleTxSig(pubkey, amount, signature, held) ==
    [sent |-> TRUE, userWallet |-> pubkey, solAmount |-> parseFloat(amount),
     solTxSignature |-> held]

CompletionBody(pubkey, amount, signature, held) ==
    [sent |-> TRUE, userWallet |-> pubkey, solAmount |-> parseFloat(amount),
     solTxSignature |-> signature]

\* Line 135: err instanceof Error ? err.message : 'Swap failed'
ErrorText(err) ==
    IF instanceofError(err) THEN StringValue(err.message)
    ELSE StringValue(MsgSwapFailed)

\* Line 203: disabled={!quote || txState !== 'idle'}
ButtonDisabled(q, state) == ~q.present \/ state # "idle"

IdleCall == [pc |-> "idle", solAmount |-> <<>>, signature |-> Undefined,
             body |-> NoBody]

\* ----------------------------------------------------- GaslessSwap: state

\* Strings the amount field is made to hold.
AmountInputs == {<<>>, <<"0",".","0">>, <<"0",".","3">>, <<"1">>}

\* SOL prices GET /api/swap answers with.
Prices == {Num(100), Num(101)}

\* SOL balances the balance hook reports.
Balances == {Num(0), Num(1)}

Environments ==
    [isConnected : BOOLEAN, smartWalletPubkey : {"none", "userPda"},
     poolWalletValid : BOOLEAN, solBalance : Balances]

DebounceId == <<0, 0, "debounce">>

SwapStart ==
    /\ solAmount = <<>>
    /\ quote = NoQuote
    /\ txState = "idle"
    /\ txSig = Null
    /\ error = Null
    /\ debounceAmount = <<>>
    /\ quoteReqs = {}
    /\ hs = [i \in Inv |-> IdleCall]
    /\ edits = 0

\* ----------------------------------------------------- GaslessSwap: steps

\* Lines 169, 76-84: onChange stores the amount; the effect's cleanup clears
\* the pending debounce timer, and the effect either clears the quote or arms
\* a new timer that captures the amount.
ChangeAmount(a) ==
    /\ env.isConnected
    /\ edits < MaxEdits
    /\ a # solAmount
    /\ edits' = edits + 1
    /\ solAmount' = a
    /\ IF NoAmount(a)
       THEN /\ quote' = NoQuote
            /\ timers' = clearTimeout(timers, DebounceId)
            /\ debounceAmount' = <<>>
       ELSE /\ timers' = setTimeout(clearTimeout(timers, DebounceId), DebounceId,
                                    0, "debounce", 500)
            /\ debounceAmount' = a
            /\ UNCHANGED quote
    /\ UNCHANGED <<env, txState, txSig, error, quoteReqs, hs>>
    /\ UNCHANGED <<policy, isSubmitting, started, pc, serial, attempt, timeoutId,
                   lastError, outcome, log, elapsed>>

\* Lines 82, 46-54: the debounce timer fires and fetchQuote runs up to its fetch.
DebounceFires ==
    /\ \E t \in timers :
         /\ t.kind = "debounce" /\ t.remaining = 0
         /\ timers' = timers \ {t}
    /\ IF NoAmount(debounceAmount)
       THEN /\ quote' = NoQuote
            /\ UNCHANGED <<txState, quoteReqs>>
       ELSE /\ txState' = "quoting"
            /\ quoteReqs' = quoteReqs \cup
                 {[id |-> CHOOSE n \in 1..(MaxEdits + 1) :
                            /\ \A r \in quoteReqs : r.id # n
                            /\ \A m \in 1..(n - 1) : \E r \in quoteReqs : r.id = m,
                   amount |-> debounceAmount]}
            /\ UNCHANGED quote
    /\ debounceAmount' = <<>>
    /\ UNCHANGED <<env, solAmount, txSig, error, hs, edits>>
    /\ UNCHANGED <<policy, isSubmitting, started, pc, serial, attempt, timeoutId,
                   lastError, outcome, log, elapsed>>

\* Lines 55-67: the price arrives.
QuoteArrives(r, solPrice) ==
    /\ r \in quoteReqs
    /\ quoteReqs' = quoteReqs \ {r}
    /\ quote' = MakeQuote(r.amount, solPrice)
    /\ txState' = "idle"
    /\ UNCHANGED <<env, solAmount, txSig, error, debounceAmount, hs, edits>>
    /\ UNCHANGED walletVars

\* Lines 54-58, 68-72: the request fails, or its answer is an error.
QuoteFails(r) ==
    /\ r \in quoteReqs
    /\ quoteReqs' = quoteReqs \ {r}
    /\ quote' = NoQuote
    /\ txState' = "error"
    /\ error' = StringValue(MsgFailedToFetchPrice)
    /\ UNCHANGED <<env, solAmount, txSig, debounceAmount, hs, edits>>
    /\ UNCHANGED walletVars

\* Lines 133-136: handleSwap's catch block.
SwapCatch(i, err) ==
    /\ txState' = "error"
    /\ error' = ErrorText(err)
    /\ hs' = [hs EXCEPT ![i].pc = "done"]

\* Lines 201-203, 87-112: a click on the enabled button runs handleSwap up to
\* its first await, which is the call of the wrapper.
ClickSwap(i) ==
    /\ env.isConnected
    /\ ~ButtonDisabled(quote, txState)
    /\ hs[i].pc \in {"idle", "done"} /\ ~Active(i)
    /\ \A j \in 1..(i - 1) : ~(hs[j].pc \in {"idle", "done"} /\ ~Active(j))
    /\ started < MaxStarts
    /\ IF env.smartWalletPubkey = "none" \/ ~quote.present \/ ~env.isConnected
       THEN UNCHANGED <<walletVars, swapVars>>
       ELSE IF ExceedsBalance(solAmount, env.solBalance)
       THEN /\ SwapCatch(i, NewError(MsgInsufficientSol, "swap"))
            /\ UNCHANGED <<env, solAmount, quote, txSig, debounceAmount, quoteReqs, edits>>
            /\ UNCHANGED walletVars
       ELSE IF ~env.poolWalletValid
       THEN /\ SwapCatch(i, NewError(MsgInvalidPublicKey, "swap"))
            /\ UNCHANGED <<env, solAmount, quote, txSig, debounceAmount, quoteReqs, edits>>
            /\ UNCHANGED walletVars
       ELSE IF TransferThrows(Lamports(solAmount))
       THEN /\ SwapCatch(i, NewError(NotIntegerText(Lamports(solAmount)), "swap"))
            /\ UNCHANGED <<env, solAmount, quote, txSig, debounceAmount, quoteReqs, edits>>
            /\ UNCHANGED walletVars
       ELSE /\ txState' = "confirming"
            /\ error' = Null
            /\ hs' = [hs EXCEPT ![i] = [pc |-> "submitting", solAmount |-> solAmount,
                                        signature |-> Undefined, body |-> NoBody]]
            /\ Invoke(i)
            /\ UNCHANGED <<env, solAmount, quote, txSig, debounceAmount, quoteReqs, edits>>

\* The wrapper's promise has settled and handleSwap, which awaits it, has not
\* run yet: its continuation is a microtask, and runs before any other event.
Resuming(i) == hs[i].pc = "submitting" /\ Finished(i)

Macrotask == \A i \in Inv : ~Resuming(i)

\* The settled call's local variables are unreachable once its promise has
\* been consumed: the slot is free again.
Release(i) ==
    /\ pc' = [pc EXCEPT ![i] = "idle"]
    /\ serial' = [serial EXCEPT ![i] = 0]
    /\ attempt' = [attempt EXCEPT ![i] = 0]
    /\ timeoutId' = [timeoutId EXCEPT ![i] = NoTimer]
    /\ lastError' = [lastError EXCEPT ![i] = Null]
    /\ outcome' = [outcome EXCEPT ![i] = NoOutcome]
    /\ log' = [log EXCEPT ![i] = <<>>]
    /\ elapsed' = [elapsed EXCEPT ![i] = 0]

\* Lines 110-123, 133-136: handleSwap resumes with the wrapper's settlement:
\* it posts the completion request with the identifier returned, or runs its
\* catch block with the error thrown.
HandleSwapResumes(i) ==
    /\ Resuming(i)
    /\ IF pc[i] = "returned"
       THEN /\ hs' = [hs EXCEPT ![i].pc = "completing",
                                ![i].signature = outcome[i].value,
                                ![i].body = CompletionBody(env.smartWalletPubkey,
                                                           hs[i].solAmount,
                                                           outcome[i].value, txSig)]
            /\ UNCHANGED <<txState, error>>
       ELSE SwapCatch(i, outcome[i].value)
    /\ Release(i)
    /\ UNCHANGED <<env, solAmount, quote, txSig, debounceAmount, quoteReqs, edits>>
    /\ UNCHANGED <<policy, isSubmitting, timers, started>>

\* Outcomes of the POST to /api/swap/complete and of res.json(): a success
\* body with or without a signature field, an error body, a response that is
\* not ok and whose body has no error field, a fetch that rejects.
CompletionAnswers ==
    {[ok |-> TRUE, signature |-> StringValue(SigUsdc), error |-> Undefined,
      thrown |-> Undefined],
     [ok |-> TRUE, signature |-> Undefined, error |-> Undefined, thrown |-> Undefined],
     [ok |-> FALSE, signature |-> Undefined, error |-> StringValue(MsgNotConfirmed),
      thrown |-> Undefined],
     [ok |-> FALSE, signature |-> Undefined, error |-> Undefined, thrown |-> Undefined],
     [ok |-> FALSE, signature |-> Undefined, error |-> Undefined,
      thrown |-> NewError(MsgFetchFailed, "fetch")]}

\* Lines 115-132, 133-136: the completion request is over.
CompletionAnswered(i, ans) ==
    /\ hs[i].pc = "completing"
    /\ IF ans.thrown # Undefined
       THEN /\ SwapCatch(i, ans.thrown)
            /\ UNCHANGED <<solAmount, quote, txSig, debounceAmount, timers>>
       ELSE IF ~ans.ok \/ ans.error # Undefined
       THEN /\ SwapCatch(i, NewError(IF ans.error # Undefined THEN ans.error.message
                                     ELSE MsgSwapFailed, "swap"))
            /\ UNCHANGED <<solAmount, quote, txSig, debounceAmount, timers>>
       ELSE /\ txSig' = IF ans.signature # Undefined THEN ans.signature
                        ELSE hs[i].signature
            /\ txState' = "success"
            /\ solAmount' = <<>>
            /\ quote' = NoQuote
            /\ timers' = IF solAmount # <<>> THEN clearTimeout(timers, DebounceId)
                         ELSE timers
            /\ debounceAmount' = IF solAmount # <<>> THEN <<>> ELSE debounceAmount
            /\ hs' = [hs EXCEPT ![i].pc = "refreshing"]
            /\ UNCHANGED error
    /\ UNCHANGED <<env, quoteReqs, edits>>
    /\ UNCHANGED <<policy, isSubmitting, started, pc, serial, attempt, timeoutId,
                   lastError, outcome, log, elapsed>>

\* Line 132, useWalletBalance.ts lines 73-74: getBalance of refresh() answers
\* and fetchBalances stores the balance; it goes on to the token lookups
\* while handleSwap still awaits it.
BalanceAnswered(i, balance) ==
    /\ hs[i].pc = "refreshing"
    /\ hs' = [hs EXCEPT ![i].pc = "refreshingTokens"]
    /\ env' = [env EXCEPT !.solBalance = balance]
    /\ UNCHANGED <<solAmount, quote, txState, txSig, error, debounceAmount,
                   quoteReqs, edits>>
    /\ UNCHANGED walletVars

\* Line 132, useWalletBalance.ts lines 90-117: refresh() is over: the token
\* lookups have answered, or getBalance rejected and fetchBalances caught it,
\* which leaves the balance as it was.
RefreshDone(i) ==
    /\ hs[i].pc \in {"refreshing", "refreshingTokens"}
    /\ hs' = [hs EXCEPT ![i].pc = "done"]
    /\ UNCHANGED <<env, solAmount, quote, txState, txSig, error, debounceAmount,
                   quoteReqs, edits>>
    /\ UNCHANGED walletVars

\* useWalletBalance.ts lines 51-56, 73-74, 124-126: the fetch the hook's own
\* effect started stores a balance: 0 without an address, else what
\* getBalance answered.
BalanceFetched(balance) ==
    /\ balance # env.solBalance
    /\ env.smartWalletPubkey = "none" => balance = Num(0)
    /\ env' = [env EXCEPT !.solBalance = balance]
    /\ UNCHANGED <<solAmount, quote, txState, txSig, error, debounceAmount,
                   quoteReqs, hs, edits>>
    /\ UNCHANGED walletVars

\* ------------------------------------------ completion endpoint: helpers

\* Messages of the completion endpoint and of the libraries it calls.
MsgInvalidRequest ==
    <<"I","n","v","a","l","i","d"," ","r","e","q","u","e","s","t">>
MsgPoolNotConfigured ==
    <<"P","o","o","l"," ","n","o","t"," ","c","o","n","f","i","g","u","r","e","d">>
MsgBadSecretKey ==
    <<"b","a","d"," ","s","e","c","r","e","t"," ","k","e","y"," ","s","i","z","e">>
MsgSimulationFailed ==
    <<"T","r","a","n","s","a","c","t","i","o","n"," ","s","i","m","u","l","a","t","i","o","n"," ","f","a","i","l","e","d">>

\* TOKEN_REGISTRY.*.USDC, as far as the endpoint reads it.
USDC == [mint |-> "usdcMint", decimals |-> 6]

\* JSON values of the request body's solAmount field: absent, a number, a
\* string that is not a numeral.
AbsentJson == [kind |-> "undefined", number |-> NotANumber]

NumberJson(n, d) == [kind |-> "number", number |-> Fraction(n, d)]

TextJson == [kind |-> "string", number |-> NotANumber]

\* ToNumber(v), as *, <= apply it to their operands.
ToNumber(v) == v.number

\* !v for these values: undefined and 0 are falsy, a non-empty string is truthy.
Falsy(v) ==
    \/ v.kind = "undefined"
    \/ v.kind = "number" /\ (v.number.nan \/ IsZero(v.number))

\* v <= 0: false when v converts to NaN.
NotPositive(v) == NumLeq(ToNumber(v), Num(0))

\* Line 100: !userWallet || !solAmount || solAmount <= 0 || !solTxSignature
InvalidRequest(body) ==
    \/ body.userWallet = ""
    \/ Falsy(body.solAmount)
    \/ NotPositive(body.solAmount)
    \/ body.solTxSignature = ""

\* Line 104: !POOL_KEYPAIR_BASE64 || !POOL_SOL_WALLET || !POOL_USDC_ACCOUNT
PoolNotConfigured(cfg) ==
    cfg.keypair = "" \/ cfg.wallet = "" \/ cfg.tokenAccount = ""

\* Line 117: status.value && !status.value.err
Confirmed_AnyStatus(status) == status # "null"

Confirmed(status) == status # "null" /\ status # "err"

\* Lines 89-92: getSOLPrice() from the quote response: it throws when the
\* response is not ok, else Number(quote.outAmount) / 10 ** USDC.decimals.
SolPriceOf(quoteResponse) ==
    IF quoteResponse.outAmount.nan THEN NotANumber
    ELSE Over(quoteResponse.outAmount, TenTo(USDC.decimals))

\* Line 133: solAmount * solPrice, with the solAmount of the request body and
\* the price getSOLPrice() returned.
UsdcAmount_ClientRate(body, solPrice) ==
    Times(ToNumber(body.solAmount), IF body.rate.nan THEN solPrice ELSE body.rate)

UsdcAmount(body, solPrice) == Times(ToNumber(body.solAmount), solPrice)

\* Line 134: Math.floor(usdcAmount * 10 ** USDC.decimals), the argument of BigInt.
UsdcRaw(usdcAmount) == MathFloor(Times(usdcAmount, TenTo(USDC.decimals)))

\* Line 141, 143: new PublicKey(s) throws for a string that is not a key.
IsPublicKey(s) == s \notin {"", "notAKey"}

\* Lines 146-150: getAssociatedTokenAddress(mint, owner, true)
AssociatedTokenAddress(mint, owner) == <<"ata", mint, owner>>

\* Lines 159-166: createAssociatedTokenAccountInstruction
CreateAccountInstruction(payer, ata, owner, mint) ==
    [type |-> "createAccount", payer |-> payer, account |-> ata,
     owner |-> owner, mint |-> mint, source |-> "", amount |-> NotANumber]

\* Lines 172-177: createTransferInstruction
TransferInstruction(source, destination, owner, amount) ==
    [type |-> "transfer", payer |-> "", account |-> destination,
     owner |-> owner, mint |-> "", source |-> source, amount |-> amount]

\* Lines 152-178: the instructions added to the transaction, given whether
\* getAccount threw.
Batch(getAccountThrew, cfg, body, raw) ==
    LET ata == AssociatedTokenAddress(USDC.mint, body.userWallet)
        transfer == TransferInstruction(cfg.tokenAccount, ata, cfg.keypair, raw)
    IN  IF getAccountThrew
        THEN <<CreateAccountInstruction(cfg.keypair, ata, body.userWallet, USDC.mint),
               transfer>>
        ELSE <<transfer>>

\* Lines 181-186: sendAndConfirmTransaction hands the batch to the network.
Broadcast_OncePerSignature(batches, r, body, tx) ==
    IF \E k \in 1..Len(batches) : batches[k].solTxSignature = body.solTxSignature
    THEN batches
    ELSE Append(batches, [request |-> r, solTxSignature |-> body.solTxSignature, tx |-> tx])

Broadcast(batches, r, body, tx) ==
    Append(batches, [request |-> r, solTxSignature |-> body.solTxSignature, tx |-> tx])

\* Line 197: err instanceof Error ? err.message : 'Swap failed'
ServerErrorText_AlwaysGeneric(err) == MsgSwapFailed

ServerErrorText(err) ==
    IF instanceofError(err) THEN err.message ELSE MsgSwapFailed

NoResponse ==
    [status |-> 0, success |-> FALSE, error |-> <<>>, hasError |-> FALSE,
     signature |-> <<>>, usdcAmount |-> NotANumber, solPrice |-> NotANumber]

\* NextResponse.json({error}, {status})
ErrorResponse(status, message) ==
    [NoResponse EXCEPT !.status = status, !.error = message, !.hasError = TRUE]

\* Lines 188-193: NextResponse.json({success: true, signature, usdcAmount, solPrice})
SuccessResponse(signature, usdcAmount, solPrice) ==
    [NoResponse EXCEPT !.status = 200, !.success = TRUE, !.signature = signature,
                       !.usdcAmount = usdcAmount, !.solPrice = solPrice]

\* -------------------------------------------- completion endpoint: state

\* Iterations of the verification loop (line 115) and its interval (line 121).
StatusPolls == 5

PollIntervalMs == 2000

Req == 1..MaxRequests

SigFail ==
    <<"s","i","g","F">>

\* What the transaction behind a signature is, as the network recorded it:
\* SigA and SigB each pay 1 SOL from the wallet "userPda" to the pool's
\* wallet; SigFail is a transaction that failed.  getSignatureStatus (line
\* 116) answers with the status alone, none of these fields.
Ledger(sig) ==
    IF sig \in {SigA, SigB}
    THEN [payer |-> "userPda", payee |-> "poolWallet", sol |-> Num(1)]
    ELSE [payer |-> "", payee |-> "", sol |-> Num(0)]

\* Line 121: await new Promise((r) => setTimeout(r, 2000)) in iteration i.
PollDelay_Growing(i) == PollIntervalMs * pow(2, i)

PollDelay(i) == PollIntervalMs

\* process.env as the module read it when it was loaded (lines 72-74).
PoolConfigs ==
    {[keypair |-> "poolKey", wallet |-> "poolWallet", tokenAccount |-> "poolUsdc"],
     [keypair |-> "", wallet |-> "poolWallet", tokenAccount |-> "poolUsdc"],
     [keypair |-> "poolKey", wallet |-> "", tokenAccount |-> "poolUsdc"],
     [keypair |-> "poolKey", wallet |-> "poolWallet", tokenAccount |-> ""],
     [keypair |-> "badKey", wallet |-> "poolWallet", tokenAccount |-> "poolUsdc"],
     [keypair |-> "poolKey", wallet |-> "poolWallet", tokenAccount |-> "notAKey"]}

RequestBody(parsed, wallet, amount, sig, rate) ==
    [parsed |-> parsed, userWallet |-> wallet, solAmount |-> amount,
     solTxSignature |-> sig, rate |-> rate]

\* Request bodies: req.json() fails on the first; the next group is well
\* formed (rate is a field the endpoint does not read: the rate the client
\* was quoted); the last group has a field missing or of the wrong form.
RequestBodies ==
    {RequestBody(FALSE, "", AbsentJson, <<>>, NotANumber)}
    \cup {RequestBody(TRUE, w, a, SigA, NotANumber) :
            w \in {"userPda", "userNew"}, a \in {NumberJson(1, 1), NumberJson(3, 10)}}
    \cup {RequestBody(TRUE, "userPda", NumberJson(1, 1), s, NotANumber) :
            s \in {SigB, SigFail}}
    \cup {RequestBody(TRUE, "userNew", NumberJson(3, 10), SigA, Num(500))}
    \cup {RequestBody(TRUE, w, NumberJson(1, 1), SigA, NotANumber) :
            w \in {"", "notAKey"}}
    \cup {RequestBody(TRUE, "userPda", a, SigA, NotANumber) :
            a \in {AbsentJson, NumberJson(0, 1), NumberJson(0 - 1, 1), TextJson}}
    \cup {RequestBody(TRUE, "userPda", NumberJson(1, 1), <<>>, NotANumber)}

\* Answers of the Jupiter quote request: ok with an outAmount, ok without
\* one, not ok, no answer at all.
QuoteResponses ==
    {[kind |-> "ok", outAmount |-> Num(100000000)],
     [kind |-> "ok", outAmount |-> Num(101000000)],
     [kind |-> "ok", outAmount |-> NotANumber],
     [kind |-> "notOk", outAmount |-> NotANumber],
     [kind |-> "rejects", outAmount |-> NotANumber]}

\* What sendAndConfirmTransaction rejects with.
SendFailures ==
    {NewError(MsgSimulationFailed, "rpc"), StringValue(MsgFetchFailed)}

FreeRequest ==
    [pc |-> "free", body |-> RequestBody(FALSE, "", AbsentJson, <<>>, NotANumber),
     i |-> 0, confirmed |-> FALSE, lookups |-> 0, slept |-> 0,
     priceFetches |-> 0, accountLookups |-> 0, accountExisted |-> FALSE,
     getAccountThrew |-> FALSE, broadcasts |-> 0,
     solPrice |-> NotANumber, usdcAmount |-> NotANumber, usdcRaw |-> NotANumber,
     tx |-> <<>>, thrownAt |-> "", thrown |-> Undefined, response |-> NoResponse]

ServerStart ==
    /\ pool = [keypair |-> "", wallet |-> "", tokenAccount |-> ""]
    /\ landed = {}
    /\ accounts = {}
    /\ sent = <<>>
    /\ req = [r \in Req |-> FreeRequest]

\* -------------------------------------------- completion endpoint: steps
\* One action per run of POST from one await to the next.

\* Lines 194-199: the catch block answers 500 with the message.
Fail(r, step, err) ==
    req' = [req EXCEPT ![r].pc = "responded", ![r].thrownAt = step,
                       ![r].thrown = err,
                       ![r].response = ErrorResponse(500, ServerErrorText(err))]

\* Lines 95-116: the request arrives; the handler runs up to the first
\* status lookup.
Post(r, body) ==
    /\ req[r].pc = "free"
    /\ \A q \in Req : q < r => req[q].pc # "free"
    /\ IF ~body.parsed
       THEN req' = [req EXCEPT ![r].pc = "responded", ![r].body = body,
                               ![r].thrownAt = "parse",
                               ![r].thrown = NewError(MsgUnexpectedEnd, "server"),
                               ![r].response =
                                   ErrorResponse(500, ServerErrorText(
                                       NewError(MsgUnexpectedEnd, "server")))]
       ELSE IF InvalidRequest(body)
       THEN req' = [req EXCEPT ![r].pc = "responded", ![r].body = body,
                               ![r].response = ErrorResponse(400, MsgInvalidRequest)]
       ELSE IF PoolNotConfigured(pool)
       THEN req' = [req EXCEPT ![r].pc = "responded", ![r].body = body,
                               ![r].response = ErrorResponse(500, MsgPoolNotConfigured)]
       ELSE req' = [req EXCEPT ![r].pc = "lookup", ![r].body = body,
                               ![r].i = 0, ![r].lookups = 1]
    /\ UNCHANGED <<pool, landed, accounts, sent>>

\* What the network knows of a signature.
StatusOf(sig) ==
    IF sig \in landed THEN "ok" ELSE IF sig = SigFail THEN "err" ELSE "null"

\* Lines 116-121, 132: getSignatureStatus answered.
StatusReturns(r) ==
    /\ req[r].pc = "lookup"
    /\ IF Confirmed(StatusOf(req[r].body.solTxSignature))
       THEN req' = [req EXCEPT ![r].pc = "price", ![r].confirmed = TRUE,
                               ![r].priceFetches = 1]
       ELSE req' = [req EXCEPT ![r].pc = "sleep"]
    /\ UNCHANGED <<pool, landed, accounts, sent>>

\* Line 116: getSignatureStatus rejected.
StatusThrows(r) ==
    /\ req[r].pc = "lookup"
    /\ Fail(r, "status", NewError(MsgFetchFailed, "rpc"))
    /\ UNCHANGED <<pool, landed, accounts, sent>>

\* Lines 121, 115-116, 124-129: the poll interval is over.
PollIntervalElapsed(r) ==
    /\ req[r].pc = "sleep"
    /\ IF req[r].i + 1 < StatusPolls
       THEN req' = [req EXCEPT ![r].pc = "lookup", ![r].i = @ + 1,
                               ![r].slept = @ + PollDelay(req[r].i),
                               ![r].lookups = @ + 1]
       ELSE req' = [req EXCEPT ![r].pc = "responded", ![r].i = @ + 1,
                               ![r].slept = @ + PollDelay(req[r].i),
                               ![r].response = ErrorResponse(400, MsgNotConfirmed)]
    /\ UNCHANGED <<pool, landed, accounts, sent>>

\* Lines 85-92, 132-156: the price request is answered; the handler computes
\* the amount, decodes the key, parses the addresses and asks for the user's
\* token account.
PriceReturns(r, q) ==
    /\ req[r].pc = "price"
    /\ \E price \in {SolPriceOf(q)} :
       \E amount \in {UsdcAmount(req[r].body, price)} :
       \E raw \in {UsdcRaw(amount)} :
         LET body == req[r].body
             computed == [req EXCEPT ![r].solPrice = price, ![r].usdcAmount = amount,
                                     ![r].usdcRaw = raw]
             threw(step, err) ==
                 [computed EXCEPT ![r].pc = "responded", ![r].thrownAt = step,
                                  ![r].thrown = err,
                                  ![r].response = ErrorResponse(500, ServerErrorText(err))]
         IN  IF q.kind = "rejects"
             THEN Fail(r, "price", NewError(MsgFetchFailed, "rpc"))
             ELSE IF q.kind = "notOk"
             THEN Fail(r, "price", NewError(MsgFailedToFetchPrice, "server"))
             ELSE IF BigIntThrows(raw)
             THEN req' = threw("amount", NewError(NotIntegerText(raw), "server"))
             ELSE IF pool.keypair = "badKey"
             THEN req' = threw("key", NewError(MsgBadSecretKey, "server"))
             ELSE IF ~IsPublicKey(body.userWallet) \/ ~IsPublicKey(pool.tokenAccount)
             THEN req' = threw("address", NewError(MsgInvalidPublicKey, "server"))
             ELSE req' = [computed EXCEPT ![r].pc = "account", ![r].accountLookups = 1]
    /\ UNCHANGED <<pool, landed, accounts, sent>>

\* Lines 156-186: getAccount answered (found) or threw (no such account, or
\* the lookup itself failed); the batch is completed and handed to
\* sendAndConfirmTransaction.
AccountReturns(r, threw) ==
    /\ req[r].pc = "account"
    /\ LET ata == AssociatedTokenAddress(USDC.mint, req[r].body.userWallet)
           tx == Batch(threw, pool, req[r].body, req[r].usdcRaw)
       IN  /\ ata \notin accounts => threw
           /\ req' = [req EXCEPT ![r].pc = "sending", ![r].getAccountThrew = threw,
                                 ![r].accountExisted = ata \in accounts,
                                 ![r].tx = tx, ![r].broadcasts = @ + 1]
           /\ sent' = Broadcast(sent, r, req[r].body, tx)
    /\ UNCHANGED <<pool, landed, accounts>>

\* Lines 181-193: the batch was confirmed.  A batch that creates an account
\* which exists is not confirmed by the network.
SendConfirmed(r) ==
    /\ req[r].pc = "sending"
    /\ LET created == {req[r].tx[k].account :
                         k \in {j \in 1..Len(req[r].tx) : req[r].tx[j].type = "createAccount"}}
       IN  /\ created \cap accounts = {}
           /\ accounts' = accounts \cup created
    /\ req' = [req EXCEPT ![r].pc = "responded",
                          ![r].response = SuccessResponse(SigUsdc, req[r].usdcAmount,
                                                          req[r].solPrice)]
    /\ UNCHANGED <<pool, landed, sent>>

\* Lines 181-186, 194-199: sendAndConfirmTransaction rejected.
SendThrows(r, err) ==
    /\ req[r].pc = "sending"
    /\ Fail(r, "broadcast", err)
    /\ UNCHANGED <<pool, landed, accounts, sent>>

\* The network confirms the payment with signature SigB.
PaymentLands ==
    /\ SigB \notin landed
    /\ landed' = landed \cup {SigB}
    /\ UNCHANGED <<pool, accounts, sent, req>>

\* ------------------------------------------------ GaslessTransfer: helpers

\* Texts of the alerts of handleTransfer (lines 276, 286, 300, 324, 335-336,
\* 360-363) and of the RangeError of BigInt(NaN).
MsgFillAllFields ==
    <<"P","l","e","a","s","e"," ","f","i","l","l"," ","i","n"," ","a","l","l"," ","f","i","e",
      "l","d","s"," ","w","i","t","h"," ","v","a","l","i","d"," ","v","a","l","u","e","s">>

MsgConnectWalletFirst ==
    <<"C","o","n","n","e","c","t"," ","w","a","l","l","e","t"," ","f","i","r","s","t">>

MsgInvalidRecipient ==
    <<"I","n","v","a","l","i","d"," ","r","e","c","i","p","i","e","n","t"," ","a","d","d","r",
      "e","s","s",":"," ">>

MsgInvalidAmount ==
    <<"I","n","v","a","l","i","d"," ","a","m","o","u","n","t">>

MsgInsufficientBalance ==
    <<"I","n","s","u","f","f","i","c","i","e","n","t"," ","b","a","l","a","n","c","e","."," ",
      "Y","o","u"," ","h","a","v","e"," ">>

MsgButTryingToSend ==
    <<" ","S","O","L"," ","b","u","t"," ","t","r","y","i","n","g"," ","t","o"," ","s","e","n",
      "d"," ">>

MsgSol ==
    <<" ","S","O","L">>

MsgCannotConvertNaN ==
    <<"T","h","e"," ","n","u","m","b","e","r"," ","N","a","N"," ","c","a","n","n","o","t"," ",
      "b","e"," ","c","o","n","v","e","r","t","e","d"," ","t","o"," ","a"," ","B","i","g","I",
      "n","t"," ","b","e","c","a","u","s","e"," ","i","t"," ","i","s"," ","n","o","t"," ","a",
      "n"," ","i","n","t","e","g","e","r">>

MsgTransferSuccessful ==
    <<"T","r","a","n","s","f","e","r"," ","s","u","c","c","e","s","s","f","u","l","!","\n","T",
      "x",":"," ">>

MsgTransferInitiated ==
    <<"T","r","a","n","s","f","e","r"," ","i","n","i","t","i","a","t","e","d",":"," ">>

MsgSolTo ==
    <<" ","S","O","L"," ","t","o"," ">>

MsgTransferFailed ==
    <<"T","r","a","n","s","f","e","r"," ","f","a","i","l","e","d">>

\* Line 255: the recipient the form starts with.
DefaultRecipient == "2HHtMGWfMzr6Rr5gq8xvmcMZcRUCv3t6pdNfx1XzNycY"

\* Line 256: the amount the form starts with.
DefaultAmount == <<"0",".","0","0","1">>

\* LAMPORTS_PER_SOL of @solana/web3.js (lines 311, 317).
LAMPORTS_PER_SOL == Num(1000000000)

\* a < b on numbers: false when either is NaN.
Less(a, b) == ~a.nan /\ ~b.nan /\ Compare(a, b) < 0

\* Line 275: !address || !amount || parseFloat(amount) < 0.001
FormIncomplete(address, amount) ==
    \/ address = "none"
    \/ amount = <<>>
    \/ Less(parseFloat(amount), Fraction(1, 1000))

\* Line 311: Math.floor(solBalance * LAMPORTS_PER_SOL)
BalanceLamports(solBalance) == MathFloor(Times(solBalance, LAMPORTS_PER_SOL))

\* Line 317: Math.floor(Number(amount) * LAMPORTS_PER_SOL)
TransferLamports(amount) == MathFloor(Times(NumberOf(amount), LAMPORTS_PER_SOL))

\* Lines 323, 327: !Number.isFinite(lamports) || lamports <= 0, lamports <= 0n
InvalidLamports(lamports) ==
    lamports.nan \/ lamports.inf \/ NumLeq(lamports, Num(0))

\* Line 333: BigInt(balance) < lamports
InsufficientBalance_Unchecked(balance, lamports) == FALSE

InsufficientBalance(balance, lamports) == Less(balance, lamports)

\* Line 335: (balance / LAMPORTS_PER_SOL).toFixed(4) for a balance in
\* lamports.
ToFixed4(balance) == toFixed(Over(balance, LAMPORTS_PER_SOL), 4)

\* What alert() was called with: the text, as the pieces the template
\* literal joins.
Alert(pieces) == [pieces |-> pieces]

\* Lines 345-349: SystemProgram.transfer({fromPubkey, toPubkey, lamports})
SystemTransfer(fromPubkey, toPubkey, lamports) ==
    [fromPubkey |-> fromPubkey, toPubkey |-> toPubkey, lamports |-> lamports]

NoInstruction == SystemTransfer("none", "", NotANumber)

\* A check failed: the alert and no instruction.
Rejected(pieces) ==
    [ok |-> FALSE, alert |-> Alert(pieces), instruction |-> NoInstruction]

\* Lines 275-349: the checks of handleTransfer in the order it makes them:
\* the alert of the first that fails, or the instruction to submit; balance
\* and lamports are what lines 311 and 317 compute.
Checks(isConnected, pubkey, recipient, amount, balance, lamports) ==
    IF FormIncomplete(pubkey, amount)
    THEN Rejected(<<MsgFillAllFields>>)
    ELSE IF ~isConnected \/ pubkey = "none"
    THEN Rejected(<<MsgConnectWalletFirst>>)
    ELSE IF ~IsPublicKey(recipient)
    THEN Rejected(<<MsgInvalidRecipient, MsgInvalidPublicKey>>)
    ELSE IF InvalidLamports(lamports)
    THEN Rejected(<<MsgInvalidAmount>>)
    ELSE IF BigIntThrows(balance)
    THEN Rejected(<<NotIntegerText(balance)>>)
    ELSE IF InsufficientBalance(balance, lamports)
    THEN Rejected(<<MsgInsufficientBalance, ToFixed4(balance),
                    MsgButTryingToSend, amount, MsgSol>>)
    ELSE [ok |-> TRUE, alert |-> Alert(<<>>),
          instruction |-> SystemTransfer(pubkey, recipient, lamports)]

Validate(isConnected, pubkey, recipient, amount, solBalance) ==
    Checks(isConnected, pubkey, recipient, amount,
           BalanceLamports(solBalance), TransferLamports(amount))

\* -------------------------------------------------- GaslessTransfer: state

\* Strings the amount field, an <input type="number">, is made to hold.
TransferAmounts ==
    {<<>>, <<"0">>, <<"0",".","0","0","0","5">>, DefaultAmount,
     <<"0",".","0","1","5","7">>, <<"-","1">>}

\* Strings the recipient field is made to hold.
Recipients == {DefaultRecipient, "", "notAKey"}

\* SOL balances getBalance / LAMPORTS_PER_SOL gives (useWalletBalance).
TransferBalances ==
    {Num(0), Fraction(3, 20000), Fraction(1, 1000), Fraction(157, 10000)}

NoTransferCall ==
    [pc |-> "idle", amount |-> <<>>, recipient |-> "", instruction |-> NoInstruction]

TransferStart ==
    gt = [recipient |-> DefaultRecipient, amount |-> DefaultAmount,
          solBalance |-> Num(0), alerts |-> <<>>, clicks |-> 0,
          edits |-> 0, call |-> [i \in Inv |-> NoTransferCall]]

\* -------------------------------------------------- GaslessTransfer: steps

\* Line 396: onChange of the recipient field.
SetAddress(r) ==
    /\ gt.edits < MaxEdits
    /\ r # gt.recipient
    /\ gt' = [gt EXCEPT !.recipient = r, !.edits = @ + 1]
    /\ UNCHANGED walletVars

\* Line 414: onChange of the amount field.
SetAmount(a) ==
    /\ gt.edits < MaxEdits
    /\ a # gt.amount
    /\ gt' = [gt EXCEPT !.amount = a, !.edits = @ + 1]
    /\ UNCHANGED walletVars

\* Lines 444-446, 270-358: a click on the enabled button runs handleTransfer
\* up to its await, the call of the wrapper, or to the alert of a failed check.
ClickTransfer(i) ==
    /\ ~isSubmitting
    /\ gt.clicks < MaxClicks
    /\ gt.call[i].pc = "idle" /\ ~Active(i)
    /\ \A j \in 1..(i - 1) : ~(gt.call[j].pc = "idle" /\ ~Active(j))
    /\ \E checked \in {Validate(env.isConnected, env.smartWalletPubkey,
                                 gt.recipient, gt.amount, gt.solBalance)} :
           IF checked.ok
           THEN /\ gt' = [gt EXCEPT !.clicks = @ + 1,
                                    !.call[i] = [pc |-> "submitting",
                                                 amount |-> gt.amount,
                                                 recipient |-> gt.recipient,
                                                 instruction |-> checked.instruction]]
                /\ Invoke(i)
           ELSE /\ gt' = [gt EXCEPT !.clicks = @ + 1,
                                    !.alerts = Append(@, checked.alert)]
                /\ UNCHANGED walletVars

\* The wrapper's promise has settled and handleTransfer, which awaits it, has
\* not run yet.
TransferResuming(i) == gt.call[i].pc = "submitting" /\ Finished(i)

TransferMacrotask == \A i \in Inv : ~TransferResuming(i)

\* Lines 356-364: handleTransfer resumes with the wrapper's settlement: two
\* alerts for the identifier returned, or the catch block's alert.
HandleTransferResumes(i) ==
    /\ TransferResuming(i)
    /\ LET call == gt.call[i]
           said == IF pc[i] = "returned"
                   THEN <<Alert(<<MsgTransferSuccessful, outcome[i].value.message>>),
                          Alert(<<MsgTransferInitiated, call.amount, MsgSolTo,
                                  call.recipient>>)>>
                   ELSE IF instanceofError(outcome[i].value)
                   THEN <<Alert(<<outcome[i].value.message>>)>>
                   ELSE <<Alert(<<MsgTransferFailed>>)>>
       IN  gt' = [gt EXCEPT !.alerts = @ \o said, !.call[i] = NoTransferCall]
    /\ Release(i)
    /\ UNCHANGED <<policy, isSubmitting, timers, started>>

\* useWalletBalance: a balance fetch for the connected address ends.
BalanceLoads(b) ==
    /\ env.smartWalletPubkey # "none"
    /\ gt.solBalance # b
    /\ gt' = [gt EXCEPT !.solBalance = b]
    /\ UNCHANGED walletVars

\* ------------------------------------------------------- specifications

\* The wrapper alone, called by a caller that waits for one invocation to
\* finish before it starts the next.
Init ==
    /\ WalletInit
    /\ SwapStart
    /\ env = [isConnected |-> FALSE, smartWalletPubkey |-> "none",
              poolWalletValid |-> FALSE, solBalance |-> Num(0)]
    /\ ServerStart
    /\ TransferStart

Next ==
    \/ \E i \in Inv : InvokeAlone(i) /\ UNCHANGED <<swapVars, serverVars, transferVars>>
    \/ \E i \in Inv, v \in ResolveValues :
         UnderlyingResolves(i, v) /\ UNCHANGED <<swapVars, serverVars, transferVars>>
    \/ \E i \in Inv, e \in RejectValues :
         UnderlyingRejects(i, e) /\ UNCHANGED <<swapVars, serverVars, transferVars>>
    \/ \E i \in Inv : TimeoutFires(i) /\ UNCHANGED <<swapVars, serverVars, transferVars>>
    \/ \E i \in Inv : BackoffElapsed(i) /\ UNCHANGED <<swapVars, serverVars, transferVars>>
    \/ \E i \in Inv : OrphanSettles(i) /\ UNCHANGED <<swapVars, serverVars, transferVars>>
    \/ AdvanceTime /\ UNCHANGED <<swapVars, serverVars, transferVars>>

Spec == Init /\ [][Next]_vars

\* The browser fires a timer that is due and lets time pass up to the next
\* one: line 413 and line 474 rely on it.
TimerStep ==
    \/ \E i \in Inv : TimeoutFires(i) /\ UNCHANGED <<swapVars, serverVars, transferVars>>
    \/ \E i \in Inv : BackoffElapsed(i) /\ UNCHANGED <<swapVars, serverVars, transferVars>>
    \/ AdvanceTime /\ UNCHANGED <<swapVars, serverVars, transferVars>>

\* Some timer step is possible exactly when a timer is pending.
TimerPending == timers # {}

\* Weak fairness of TimerStep, WF_vars(TimerStep), with ENABLED <<TimerStep>>_vars
\* written as the state predicate it is equal to.
FairSpec == Spec /\ ([]<>(~TimerPending) \/ []<><<TimerStep>>_vars)

\* The swap client on top of the wrapper, with the shipped policy.
SwapResolveValues == {StringValue(SigA), ObjectWithSignature(SigB)}

SwapRejectValues ==
    {NewError(MsgHttp429, "wallet"), NewError(MsgInsufficient, "wallet")}

SwapInit ==
    /\ WalletInit
    /\ policy = TX_RETRY_POLICY
    /\ SwapStart
    /\ env \in Environments
    /\ ServerStart
    /\ TransferStart

SwapNext ==
    \/ \E i \in Inv : HandleSwapResumes(i) /\ UNCHANGED <<serverVars, transferVars>>
    \/ \E a \in AmountInputs : Macrotask /\ ChangeAmount(a) /\ UNCHANGED <<serverVars, transferVars>>
    \/ Macrotask /\ DebounceFires /\ UNCHANGED <<serverVars, transferVars>>
    \/ \E r \in quoteReqs, p \in Prices : Macrotask /\ QuoteArrives(r, p) /\ UNCHANGED <<serverVars, transferVars>>
    \/ \E r \in quoteReqs : Macrotask /\ QuoteFails(r) /\ UNCHANGED <<serverVars, transferVars>>
    \/ \E i \in Inv : Macrotask /\ ClickSwap(i) /\ UNCHANGED <<serverVars, transferVars>>
    \/ \E i \in Inv, v \in SwapResolveValues :
         Macrotask /\ UnderlyingResolves(i, v) /\ UNCHANGED <<swapVars, serverVars, transferVars>>
    \/ \E i \in Inv, e \in SwapRejectValues :
         Macrotask /\ UnderlyingRejects(i, e) /\ UNCHANGED <<swapVars, serverVars, transferVars>>
    \/ \E i \in Inv : Macrotask /\ TimeoutFires(i) /\ UNCHANGED <<swapVars, serverVars, transferVars>>
    \/ \E i \in Inv : Macrotask /\ BackoffElapsed(i) /\ UNCHANGED <<swapVars, serverVars, transferVars>>
    \/ \E i \in Inv, ans \in CompletionAnswers :
         Macrotask /\ CompletionAnswered(i, ans) /\ UNCHANGED <<serverVars, transferVars>>
    \/ \E i \in Inv, b \in Balances :
         Macrotask /\ BalanceAnswered(i, b) /\ UNCHANGED <<serverVars, transferVars>>
    \/ \E i \in Inv : Macrotask /\ RefreshDone(i) /\ UNCHANGED <<serverVars, transferVars>>
    \/ \E b \in Balances : Macrotask /\ BalanceFetched(b) /\ UNCHANGED <<serverVars, transferVars>>
    \/ Macrotask /\ AdvanceTime /\ UNCHANGED <<swapVars, serverVars, transferVars>>

SwapSpec == SwapInit /\ [][SwapNext]_vars

\* The completion endpoint alone: requests arrive with any of the bodies, the
\* payment SigA is confirmed, SigB may be confirmed later, SigFail failed;
\* userPda has a USDC token account, userNew has none.
ServerInit ==
    /\ WalletInit
    /\ policy = TX_RETRY_POLICY
    /\ SwapStart
    /\ env = [isConnected |-> FALSE, smartWalletPubkey |-> "none",
              poolWalletValid |-> FALSE, solBalance |-> Num(0)]
    /\ pool \in PoolConfigs
    /\ landed = {SigA}
    /\ accounts = {AssociatedTokenAddress(USDC.mint, "userPda")}
    /\ sent = <<>>
    /\ req = [r \in Req |-> FreeRequest]
    /\ TransferStart

ServerNext ==
    \/ \E r \in Req, body \in RequestBodies : Post(r, body) /\ UNCHANGED clientVars
    \/ \E r \in Req : StatusReturns(r) /\ UNCHANGED clientVars
    \/ \E r \in Req : StatusThrows(r) /\ UNCHANGED clientVars
    \/ \E r \in Req : PollIntervalElapsed(r) /\ UNCHANGED clientVars
    \/ \E r \in Req, q \in QuoteResponses : PriceReturns(r, q) /\ UNCHANGED clientVars
    \/ \E r \in Req, threw \in BOOLEAN : AccountReturns(r, threw) /\ UNCHANGED clientVars
    \/ \E r \in Req : SendConfirmed(r) /\ UNCHANGED clientVars
    \/ \E r \in Req, err \in SendFailures : SendThrows(r, err) /\ UNCHANGED clientVars
    \/ PaymentLands /\ UNCHANGED clientVars

ServerSpec == ServerInit /\ [][ServerNext]_vars

\* The transfer form alone: the user edits the two fields and clicks the
\* button, the balance hook reports balances, and the wrapper runs under the
\* shipped policy.
TransferInit ==
    /\ WalletInit
    /\ policy = TX_RETRY_POLICY
    /\ SwapStart
    /\ env \in {e \in Environments : ~e.poolWalletValid /\ e.solBalance = Num(0)}
    /\ ServerStart
    /\ TransferStart

TransferNext ==
    \/ \E i \in Inv : HandleTransferResumes(i) /\ UNCHANGED <<swapVars, serverVars>>
    \/ \E r \in Recipients :
         TransferMacrotask /\ SetAddress(r) /\ UNCHANGED <<swapVars, serverVars>>
    \/ \E a \in TransferAmounts :
         TransferMacrotask /\ SetAmount(a) /\ UNCHANGED <<swapVars, serverVars>>
    \/ \E b \in TransferBalances :
         TransferMacrotask /\ BalanceLoads(b) /\ UNCHANGED <<swapVars, serverVars>>
    \/ \E i \in Inv :
         TransferMacrotask /\ ClickTransfer(i) /\ UNCHANGED <<swapVars, serverVars>>
    \/ \E i \in Inv, v \in SwapResolveValues :
         TransferMacrotask /\ UnderlyingResolves(i, v)
                           /\ UNCHANGED <<swapVars, serverVars, transferVars>>
    \/ \E i \in Inv, e \in SwapRejectValues :
         TransferMacrotask /\ UnderlyingRejects(i, e)
                           /\ UNCHANGED <<swapVars, serverVars, transferVars>>
    \/ \E i \in Inv :
         TransferMacrotask /\ TimeoutFires(i)
                           /\ UNCHANGED <<swapVars, serverVars, transferVars>>
    \/ \E i \in Inv :
         TransferMacrotask /\ BackoffElapsed(i)
                           /\ UNCHANGED <<swapVars, serverVars, transferVars>>
    \/ TransferMacrotask /\ AdvanceTime
                         /\ UNCHANGED <<swapVars, serverVars, transferVars>>

TransferSpec == TransferInit /\ [][TransferNext]_vars

\* ------------------------------------------------- reliability wrapper claims

\* The attempts of invocation i that ended in a failure of the race: the
\* underlying call rejected, or the attempt's timer fired.
FailedAttempts(i) ==
    {k \in 1..Len(log[i]) : log[i][k].how \in {"rejected", "timeout"}}

GenericRateLimitError == NewError(MsgRateLimitedGeneric, "wrapper")

UnexpectedResponseError == NewError(MsgUnexpected, "wrapper")

\* C1: an attempt that fails with a value that is not rate-limit-classified
\* (a rejection of the underlying call, or the wrapper's own timeout error)
\* is the invocation's last attempt: no backoff wait follows it, no further
\* underlying call is made (so a first attempt failing this way leaves exactly
\* one call), the invocation throws, and when the failure is an Error object
\* the thrown error is that very object.
C1_NonRateLimitFailsFast ==
    \A i \in Inv : \A k \in FailedAttempts(i) :
        LET e == log[i][k].value
        IN  ~isRateLimited(e) =>
              /\ k = Len(log[i])
              /\ log[i][k].wait = -1
              /\ \A t \in timers : t.inv # i
              /\ pc[i] = "thrown"
              /\ outcome[i].status = "thrown"
              /\ (k = 1 => Len(log[i]) = 1 /\ attempt[i] = 0)
              /\ (instanceofError(e) => outcome[i].value = e)

C1_Witness ==
    \E i \in Inv :
        /\ policy.attempts = 3
        /\ pc[i] = "thrown"
        /\ Len(log[i]) = 1
        /\ log[i][1].how = "rejected"
        /\ log[i][1].value = NewError(MsgInsufficient, "wallet")
        /\ outcome[i].value = NewError(MsgInsufficient, "wallet")

\* Every attempt so far of invocation i was rejected by the underlying call
\* with a rate-limit-classified error.
AllRateLimited(i) ==
    \A k \in 1..Len(log[i]) :
        log[i][k].how = "rejected" /\ isRateLimited(log[i][k].value)

\* C2: an invocation that is rate limited on every attempt makes exactly
\* policy.attempts underlying calls; attempt k (counted from 0) is followed
\* by a wait of backoffMs * 2^k, which is also the time between the end of
\* attempt k and the start of attempt k+1; the last attempt is followed by no
\* wait.
C2_RateLimitedRetriesWithBackoff ==
    \A i \in Inv :
        (pc[i] = "thrown" /\ Len(log[i]) > 0 /\ AllRateLimited(i)) =>
            /\ Len(log[i]) = policy.attempts
            /\ log[i][Len(log[i])].wait = -1
            /\ \A k \in 1..(Len(log[i]) - 1) :
                 /\ log[i][k].wait = policy.backoffMs * 2^(k - 1)
                 /\ log[i][k + 1].start = log[i][k].end + policy.backoffMs * 2^(k - 1)
            /\ Cardinality({k \in 1..Len(log[i]) : log[i][k].wait # -1})
                 = policy.attempts - 1

C2_Witness ==
    \E i \in Inv :
        /\ policy.attempts = 3
        /\ pc[i] = "thrown"
        /\ AllRateLimited(i)
        /\ Len(log[i]) = 3
        /\ log[i][1].wait = policy.backoffMs
        /\ log[i][2].wait = 2 * policy.backoffMs

\* The transaction identifier carried by a resolved value of an accepted
\* shape: the string itself, or the signature field of the object.
Identifier(v) == IF v.kind = "string" THEN v ELSE StringValue(v.signature)

AcceptedShape(v) ==
    \/ v.kind = "string"
    \/ v.kind = "object" /\ v.hasSignature

\* C3: an invocation that has returned did so on its last underlying call,
\* which resolved after rate-limited failures of all the earlier ones; it
\* returns the identifier that call produced, and it has made no more than
\* policy.attempts calls.
C3_SuccessReturnsThatAttempt ==
    \A i \in Inv :
        pc[i] = "returned" =>
            LET n == Len(log[i])
            IN  /\ n >= 1 /\ n <= policy.attempts
                /\ n = attempt[i] + 1
                /\ log[i][n].how = "resolved"
                /\ AcceptedShape(log[i][n].value)
                /\ outcome[i] = [status |-> "returned",
                                 value |-> Identifier(log[i][n].value)]
                /\ \A k \in 1..(n - 1) :
                     /\ log[i][k].how = "rejected"
                     /\ isRateLimited(log[i][k].value)
                /\ \A t \in timers : t.inv # i

C3_Witness ==
    \E i \in Inv :
        /\ pc[i] = "returned"
        /\ Len(log[i]) = 3
        /\ log[i][3].value = ObjectWithSignature(SigB)
        /\ outcome[i].value = StringValue(SigB)

\* C4: with one invocation at a time, isSubmitting is true while the
\* invocation is in an attempt or in a backoff wait, it was already true when
\* each underlying call was started, and it is false as soon as the
\* invocation has returned or thrown (and before any invocation).
C4_SubmittingFlagSpansInvocation ==
    /\ (\E i \in Inv : Active(i)) => isSubmitting
    /\ (\A i \in Inv : ~Active(i)) => ~isSubmitting
    /\ \A i \in Inv : \A k \in 1..Len(log[i]) : log[i][k].submitting

C4_Witness ==
    \E i \in Inv :
        /\ pc[i] = "thrown"
        /\ Len(log[i]) = 2
        /\ log[i][2].how = "timeout"
        /\ ~isSubmitting

\* C5: an attempt never lasts longer than timeoutMs; an attempt ended by its
\* timer ended exactly timeoutMs after it started and failed with the timeout
\* error; and the only timeout timer an invocation may have pending is the
\* one of the attempt it is currently racing, so none is pending after an
\* attempt has ended or after the invocation has finished.
C5_TimeoutAndTimerCleared ==
    \A i \in Inv :
        /\ \A k \in 1..Len(log[i]) :
             /\ log[i][k].how = "timeout" =>
                  /\ log[i][k].end = log[i][k].start + policy.timeoutMs
                  /\ log[i][k].value = TimeoutError
                  /\ lastError[i] = TimeoutError
                  /\ pc[i] = "thrown"
                  /\ outcome[i].value = TimeoutError
             /\ log[i][k].how \in {"resolved", "rejected"} =>
                  log[i][k].end <= log[i][k].start + policy.timeoutMs
             /\ log[i][k].how = "pending" =>
                  elapsed[i] <= log[i][k].start + policy.timeoutMs
        /\ \A t \in timers :
             (t.inv = i /\ t.kind = "timeout") =>
                 /\ pc[i] = "racing"
                 /\ t.id = timeoutId[i]
                 /\ t.id = <<serial[i], attempt[i], "timeout">>
        /\ Finished(i) => \A t \in timers : t.inv # i

C5_Witness ==
    \E i \in Inv :
        /\ pc[i] = "thrown"
        /\ log[i][Len(log[i])].how = "timeout"
        /\ log[i][Len(log[i])].call = "pending"
        /\ timers = {}
        /\ Len(log[i]) = 1

\* C6: an invocation that has thrown threw the fixed generic rate-limit
\* error, a new object whose message is not the recorded error's, when the
\* last recorded error is rate-limit-classified, and threw the last recorded
\* error itself otherwise.  The last recorded error is the value the last
\* attempt failed with (wrapped in an Error when it is not one).
C6_FinalErrorSelection ==
    \A i \in Inv :
        (pc[i] = "thrown" /\ Len(log[i]) > 0) =>
            LET last == log[i][Len(log[i])]
            IN  /\ outcome[i].status = "thrown"
                /\ (last.how \in {"rejected", "timeout"} /\ instanceofError(last.value))
                      => lastError[i] = last.value
                /\ (last.how = "rejected" /\ ~instanceofError(last.value))
                      => lastError[i] = NewError(String(last.value), "wrapper")
                /\ last.how = "resolved" => lastError[i] = UnexpectedResponseError
                /\ IF isRateLimited(lastError[i])
                   THEN /\ outcome[i].value = GenericRateLimitError
                        /\ outcome[i].value # lastError[i]
                        /\ outcome[i].value.message # lastError[i].message
                   ELSE outcome[i].value = lastError[i]

C6_Witness ==
    \E i \in Inv :
        /\ pc[i] = "thrown"
        /\ lastError[i] = NewError(MsgHttp429, "wallet")
        /\ outcome[i].value = GenericRateLimitError
        /\ Len(log[i]) = policy.attempts

\* C7, as claimed: the generic rate-limit error is thrown only by an
\* invocation that made exactly policy.attempts underlying calls.
C7_GenericOnlyAfterExhaustion ==
    \A i \in Inv :
        (pc[i] = "thrown" /\ outcome[i].value = GenericRateLimitError) =>
            Len(log[i]) = policy.attempts

\* C8: attempts are sequential.  When attempt k+1 has been started, attempt
\* k's race is settled with a rejection of the underlying call, its backoff
\* wait was requested, and attempt k+1 started no earlier than that wait
\* after attempt k ended; at most one underlying call of an invocation is
\* unsettled, and it is the last one.
C8_AttemptsSequential ==
    \A i \in Inv :
        /\ \A k \in 1..(Len(log[i]) - 1) :
             /\ log[i][k].how = "rejected"
             /\ log[i][k].call = "rejected"
             /\ log[i][k].end >= log[i][k].start
             /\ log[i][k].wait >= 0
             /\ log[i][k + 1].start >= log[i][k].end + policy.backoffMs * 2^(k - 1)
        /\ \A k \in 1..Len(log[i]) :
             log[i][k].call = "pending" => k = Len(log[i])
        /\ pc[i] = "backoff" => log[i][Len(log[i])].how = "rejected"

C8_Witness ==
    \E i \in Inv :
        /\ pc[i] = "racing"
        /\ Len(log[i]) = 3
        /\ log[i][3].start = 3 * policy.backoffMs
        /\ log[i][3].call = "pending"

\* C9: a resolved value that is a string is returned as it is; a non-null
\* object with a signature field returns that field; a resolved value of any
\* other shape makes the invocation throw the 'Unexpected wallet response'
\* error at once: that attempt is the last, and no backoff wait follows it.
C9_ResultNormalisation ==
    \A i \in Inv : \A k \in 1..Len(log[i]) :
        LET v == log[i][k].value
        IN  log[i][k].how = "resolved" =>
              /\ k = Len(log[i])
              /\ log[i][k].wait = -1
              /\ Finished(i)
              /\ \A t \in timers : t.inv # i
              /\ v.kind = "string" =>
                   outcome[i] = [status |-> "returned", value |-> v]
              /\ (v.kind = "object" /\ v.hasSignature) =>
                   outcome[i] = [status |-> "returned",
                                 value |-> StringValue(v.signature)]
              /\ ~AcceptedShape(v) =>
                   /\ outcome[i] = [status |-> "thrown",
                                    value |-> UnexpectedResponseError]
                   /\ lastError[i] = UnexpectedResponseError

C9_Witness ==
    \E i \in Inv :
        /\ pc[i] = "thrown"
        /\ Len(log[i]) = 1
        /\ policy.attempts = 3
        /\ log[i][1].how = "resolved"
        /\ log[i][1].value = ObjectWithoutSignature
        /\ outcome[i].value = UnexpectedResponseError


\* C21: with the shipped TX_RETRY_POLICY an invocation makes at most 3
\* attempts, waits 1000 ms after the first rate-limited failure and twice the
\* previous wait after each further one, and an attempt that times out has
\* lasted 30000 ms.
C21_ShippedPolicy ==
    policy = TX_RETRY_POLICY =>
        \A i \in Inv :
            /\ Len(log[i]) <= 3
            /\ \A k \in 1..Len(log[i]) :
                 /\ log[i][k].wait >= 0 => log[i][k].wait = 1000 * pow(2, k - 1)
                 /\ log[i][k].how = "timeout" =>
                      log[i][k].end - log[i][k].start = 30000

\* C24: whenever isSubmitting is false no underlying call started by the
\* wrapper is still pending, also not the call of an attempt that ended by
\* timeout.
C24_NoPendingCallWhenIdle ==
    ~isSubmitting =>
        \A i \in Inv : \A k \in 1..Len(log[i]) : log[i][k].call # "pending"

\* C27: an invocation never makes more than `attempts` attempts, an
\* invocation in progress eventually returns or throws, whatever the
\* underlying call does or fails to do, and isSubmitting, once true, is
\* eventually false.
C27_InvocationTerminates ==
    /\ \A i \in Inv : [](Len(log[i]) <= policy.attempts)
    /\ \A i \in Inv : (Active(i) ~> Finished(i))
    /\ (isSubmitting ~> ~isSubmitting)

C27_Witness ==
    \E i \in Inv :
        /\ pc[i] = "thrown"
        /\ Len(log[i]) = policy.attempts
        /\ policy.attempts = 3
        /\ log[i][3].how = "timeout"
        /\ log[i][3].call = "pending"
        /\ ~isSubmitting

\* A character of a message matches a character of a (lower-case) token if
\* they are equal or the former is the capital of the latter.
SameLetter(c, d) ==
    c = d \/ \E k \in 1..Len(Upper) : c = Upper[k] /\ d = Lower[k]

ContainsIgnoringCase(msg, tok) ==
    \E o \in 0..(Len(msg) - Len(tok)) :
        \A j \in 1..Len(tok) : SameLetter(msg[o + j], tok[j])

ExpectedRateLimited(v) ==
    /\ v.kind = "Error"
    /\ \E tok \in {Tok429, TokRateLimit, TokTooMany, TokThrottle} :
         ContainsIgnoringCase(v.message, tok)

ClassifierInputs ==
    RejectValues \cup ResolveValues
    \cup {TimeoutError, GenericRateLimitError, UnexpectedResponseError}
    \cup {NewError(m, "wallet") : m \in {Tok429, TokRateLimit, TokTooMany, TokThrottle,
                                         MsgUserRejected, <<>>}}
    \cup {StringValue(m) : m \in {TokRateLimit, MsgRateLimitCaps, MsgThrottled}}

\* C28: isRateLimited is true exactly of the Error instances whose message
\* contains '429', 'rate limit', 'too many requests' or 'throttle' in any
\* mix of upper and lower case, and false of every other value; the wrapper
\* retries a rejected attempt that is not its last exactly when the value
\* rejected with is such an Error.
C28_RateLimitClassification ==
    /\ \A v \in ClassifierInputs : isRateLimited(v) <=> ExpectedRateLimited(v)
    /\ \A i \in Inv : \A k \in 1..Len(log[i]) :
         (log[i][k].how = "rejected" /\ k < policy.attempts) =>
             (log[i][k].wait >= 0 <=> ExpectedRateLimited(log[i][k].value))

C28_Witness ==
    \E i \in Inv :
        /\ Len(log[i]) = 3
        /\ log[i][1].value = NewError(MsgThrottled, "wallet")
        /\ log[i][1].wait = policy.backoffMs
        /\ log[i][2].value = NewError(MsgTooManyCaps, "wallet")
        /\ log[i][2].wait = 2 * policy.backoffMs

\* ------------------------------------------------------- swap client claims

\* C10: handleSwap posts the completion request only in the step in which it
\* resumes from a wrapper invocation that has returned, the request carries
\* as solTxSignature exactly the identifier that invocation returned, and a
\* handleSwap call whose submission is in flight or has thrown posts nothing.
C10_CompletionAfterSubmission ==
    [][\A i \in Inv :
         /\ (~hs[i].body.sent /\ hs'[i].body.sent) =>
              /\ hs[i].pc = "submitting"
              /\ pc[i] = "returned"
              /\ outcome[i].status = "returned"
              /\ hs'[i].body.solTxSignature = outcome[i].value
              /\ hs'[i].signature = outcome[i].value
              /\ hs'[i].pc = "completing"
         /\ (hs[i].pc = "submitting" /\ pc[i] # "returned") => ~hs'[i].body.sent
         /\ (hs[i].pc = "submitting" /\ pc[i] = "thrown") =>
              /\ hs'[i].pc = "done"
              /\ txState' = "error"
      ]_vars

C10_Witness ==
    \E i \in Inv :
        /\ hs[i].pc = "completing"
        /\ hs[i].body.sent
        /\ hs[i].body.solTxSignature = StringValue(SigB)
        /\ hs[i].body.solAmount = Num(1)
        /\ hs[i].body.userWallet = "userPda"


\* C15: a handleSwap call starts a submission through the wrapper only in a
\* step that begins with the wallet connected, a wallet address and a quote
\* present and the entered amount at most solBalance; a step that begins
\* otherwise starts no submission and sends no completion request for a call
\* that was not already submitting.
C15_SubmissionPreconditions ==
    [][\A i \in Inv :
         LET submits == hs[i].pc # "submitting" /\ hs'[i].pc = "submitting"
             sends == hs[i].pc # "submitting" /\ hs'[i].body.sent /\ ~hs[i].body.sent
         IN  /\ submits =>
                  /\ started' = started + 1
                  /\ hs'[i].solAmount = solAmount
                  /\ ~hs'[i].body.sent
             /\ (submits \/ started' # started \/ sends) =>
                  /\ env.isConnected
                  /\ env.smartWalletPubkey # "none"
                  /\ quote.present
                  /\ ~parseFloat(solAmount).nan
                  /\ NumLeq(parseFloat(solAmount), env.solBalance)
      ]_vars

C15_Witness ==
    \E i \in Inv :
        /\ hs[i].pc = "submitting"
        /\ hs[i].solAmount = <<"1">>
        /\ env.solBalance = Num(1)
        /\ started = 1
        /\ pc[i] = "racing"

\* C16: a change of the entered amount to an empty, zero or non-positive
\* value issues no quote request, clears the quote and leaves the client in
\* the idle state.
C16_EmptyAmountReturnsToIdle ==
    [][(edits' # edits /\ NoAmount(solAmount')) =>
          /\ quoteReqs' = quoteReqs
          /\ quote' = NoQuote
          /\ txState' = "idle"]_vars

\* C17: once txState is swapping or confirming, its next value is confirming,
\* success or error, whatever amount changes, debounce timers and quote
\* responses are interleaved.
C17_SwapStateMachine ==
    [][(txState \in {"swapping", "confirming"}) =>
          (txState' \in {"swapping", "confirming", "success", "error"})]_vars

\* C20: a change of the entered amount while the client is in the error state
\* discards the held quote and the held transaction identifier.
C20_ErrorDiscardsOnAmountChange ==
    [][(txState = "error" /\ edits' # edits) =>
          /\ quote' = NoQuote
          /\ txSig' = Null]_vars

\* C23: at most one payment submission of the component is in flight at any
\* time: no two invocations of the wrapper made by handleSwap are unfinished
\* together.
C23_OneSubmissionInFlight ==
    Cardinality({i \in Inv : Active(i)}) <= 1

\* C25: a held quote belongs to the amount in the field: the amount parses
\* to a number above 0 and quote.usdcAmount is that number times quote.rate.
C25_QuoteMatchesAmount ==
    quote.present =>
        /\ NumGt(parseFloat(solAmount), Num(0))
        /\ quote.usdcAmount = NumTimes(parseFloat(solAmount), quote.rate)

\* C26: while any invocation made through the hook instance is unfinished,
\* isSubmitting is true.
C26_SubmittingUntilLastFinishes ==
    (\E i \in Inv : Active(i)) => isSubmitting

\* ------------------------------------------------ completion endpoint claims

Transfers(tx) == {k \in 1..Len(tx) : tx[k].type = "transfer"}

Creations(tx) == {k \in 1..Len(tx) : tx[k].type = "createAccount"}

NoNetworkCall(r) ==
    req[r].lookups = 0 /\ req[r].priceFetches = 0 /\ req[r].broadcasts = 0

\* C11: a request fetches a price or broadcasts a countersettlement only
\* after a status lookup for its solTxSignature returned a status without
\* error (the network reports the signature as confirmed); a request whose
\* five polls all returned without such a status is answered 400 'SOL
\* transaction not confirmed' and has fetched no price and broadcast nothing.
C11_BroadcastOnlyAfterConfirmation ==
    /\ \A k \in 1..Len(sent) : sent[k].solTxSignature \in landed
    /\ \A r \in Req :
         /\ (req[r].priceFetches > 0 \/ req[r].broadcasts > 0) =>
              /\ req[r].body.solTxSignature \in landed
              /\ req[r].lookups >= 1
         /\ (req[r].pc = "responded" /\ req[r].lookups = StatusPolls
               /\ req[r].thrownAt = "" /\ req[r].priceFetches = 0) =>
              /\ req[r].response.status = 400
              /\ req[r].response.error = MsgNotConfirmed
              /\ req[r].broadcasts = 0
         /\ (req[r].response.hasError /\ req[r].response.error = MsgNotConfirmed) =>
              /\ req[r].response.status = 400
              /\ req[r].lookups = StatusPolls
              /\ req[r].priceFetches = 0
              /\ req[r].broadcasts = 0

C11_Witness ==
    \E r, q \in Req :
        /\ req[r].pc = "responded"
        /\ req[r].body.solTxSignature = SigFail
        /\ req[r].lookups = StatusPolls
        /\ req[r].response.status = 400
        /\ req[q].broadcasts = 1
        /\ req[q].body.solTxSignature = SigB

\* What C12 calls a missing or invalid field: userWallet that is not an
\* address, solAmount that is not a number above 0, an empty solTxSignature.
FieldMissingOrInvalid(body) ==
    \/ ~IsPublicKey(body.userWallet)
    \/ body.solAmount.kind # "number"
    \/ body.solAmount.number.nan
    \/ NumLeq(body.solAmount.number, Num(0))
    \/ body.solTxSignature = <<>>

\* C12: a request with a missing or invalid userWallet, solAmount or
\* solTxSignature is answered 400, a valid request to an endpoint whose pool
\* keypair, wallet or token account is not configured is answered 500 'Pool
\* not configured', and in both cases the request makes no status lookup, no
\* price fetch and no broadcast.
C12_RejectsBeforeAnyNetworkCall ==
    \A r \in Req :
        (req[r].pc # "free" /\ req[r].body.parsed) =>
            /\ FieldMissingOrInvalid(req[r].body) =>
                 /\ NoNetworkCall(r)
                 /\ req[r].response.status = 400
            /\ (~FieldMissingOrInvalid(req[r].body)
                  /\ (pool.keypair = "" \/ pool.wallet = "" \/ pool.tokenAccount = "")) =>
                 /\ NoNetworkCall(r)
                 /\ req[r].response.status = 500
                 /\ req[r].response.error = MsgPoolNotConfigured

\* C13: the amount of the transfer instruction of every broadcast batch is
\* floor(solAmount * r * 10^decimals) for the solAmount of the request and
\* the rate r the endpoint fetched during that request, whatever rate the
\* client was quoted or sent along.
C13_AmountFromServerRate ==
    \A k \in 1..Len(sent) :
        LET r == sent[k].request
            a == req[r].body.solAmount.number
            rate == req[r].solPrice
            tx == sent[k].tx
        IN  /\ ~rate.nan
            /\ \E q \in QuoteResponses :
                 /\ ~q.outAmount.nan
                 /\ rate = Over(q.outAmount, TenTo(USDC.decimals))
            /\ \A j \in Transfers(tx) :
                 tx[j].amount = MathFloor(Times(Times(a, rate), TenTo(USDC.decimals)))

C13_Witness ==
    \E k \in 1..Len(sent) :
        /\ req[sent[k].request].body.rate = Num(500)
        /\ req[sent[k].request].solPrice = Num(101)
        /\ sent[k].tx[Len(sent[k].tx)].amount = Num(30299999)

\* C14: every broadcast batch ends with its only transfer instruction, from
\* the pool token account to the user's derived token account; if that
\* account did not exist when the endpoint looked it up the batch is one
\* account-creation instruction followed by the transfer, and if it existed
\* the batch is the transfer alone.
C14_BatchShape ==
    \A k \in 1..Len(sent) :
        LET r == sent[k].request
            tx == sent[k].tx
            ata == AssociatedTokenAddress(USDC.mint, req[r].body.userWallet)
        IN  /\ Len(tx) >= 1
            /\ Transfers(tx) = {Len(tx)}
            /\ tx[Len(tx)].source = pool.tokenAccount
            /\ tx[Len(tx)].account = ata
            /\ IF req[r].accountExisted
               THEN Len(tx) = 1
               ELSE /\ Len(tx) = 2
                    /\ Creations(tx) = {1}
                    /\ tx[1].account = ata

\* C18: nothing records a settled signature: every request that passed
\* verification and reached the broadcast has a batch of its own among the
\* broadcast batches, also when an earlier request carried the same
\* solTxSignature.
C18_NotIdempotent ==
    \A r \in Req :
        /\ req[r].broadcasts = Cardinality({k \in 1..Len(sent) : sent[k].request = r})
        /\ (req[r].pc = "sending" \/ req[r].response.success) =>
             /\ req[r].broadcasts = 1
             /\ \E k \in 1..Len(sent) :
                  /\ sent[k].request = r
                  /\ sent[k].solTxSignature = req[r].body.solTxSignature
                  /\ sent[k].tx = req[r].tx

C18_Witness ==
    \E r, q \in Req :
        /\ r # q
        /\ req[r].body = req[q].body
        /\ req[r].response.success
        /\ req[q].response.success
        /\ Len(sent) = 2
        /\ sent[1].solTxSignature = sent[2].solTxSignature
        /\ sent[1].request # sent[2].request

\* The steps C19 lists.
ListedSteps == {"parse", "status", "price", "key", "address", "amount", "broadcast"}

\* C19: an exception at body parsing, status lookup, price fetch, key
\* decoding, address parsing, amount conversion or broadcast ends the request
\* in the step that raised it with a 500 response whose body is {error:
\* message}, the message being that of the Error thrown, or 'Swap failed'
\* for a thrown value that is not an Error; the response is never a success.
C19_ExceptionsAnswered500 ==
    \A r \in Req :
        /\ req[r].thrownAt # "" =>
             /\ req[r].thrownAt \in ListedSteps
             /\ req[r].pc = "responded"
             /\ req[r].response.status = 500
             /\ req[r].response.hasError
             /\ ~req[r].response.success
             /\ req[r].response.signature = <<>>
             /\ req[r].response.error =
                  (IF req[r].thrown.kind = "Error" THEN req[r].thrown.message
                   ELSE MsgSwapFailed)
        /\ req[r].response.success => req[r].thrownAt = ""

C19_Witness ==
    \E r, q \in Req :
        /\ req[r].thrownAt = "broadcast"
        /\ req[r].thrown = StringValue(MsgFetchFailed)
        /\ req[r].response.error = MsgSwapFailed
        /\ req[q].thrownAt = "amount"
        /\ req[q].response.error = MsgNotInteger

\* a >= b for two numbers
AtLeast(a, b) == ~a.nan /\ ~b.nan /\ Compare(a, b) >= 0

\* C22: every countersettlement broadcast answers a request whose
\* solTxSignature is a confirmed payment of at least solAmount SOL from the
\* request's userWallet to the pool's wallet; a confirmed signature of any
\* other transaction leads to no broadcast.
C22_BroadcastOnlyForMatchingPayment ==
    \A k \in 1..Len(sent) :
        LET body == req[sent[k].request].body
            paid == Ledger(sent[k].solTxSignature)
        IN  /\ sent[k].solTxSignature \in landed
            /\ paid.payer = body.userWallet
            /\ paid.payee = pool.wallet
            /\ AtLeast(paid.sol, ToNumber(body.solAmount))

\* C29: a request makes at most five status lookups, one at a time, the
\* first on arrival and each later one when a wait ends; every
\* non-confirming lookup is followed by a wait of exactly 2000 ms; nothing
\* is looked up or waited for after a confirming lookup, which leads
\* directly to the price fetch.
C29_PollingSchedule ==
    [][\A r \in Req :
         /\ req'[r].lookups <= StatusPolls
         /\ req'[r].lookups # req[r].lookups =>
              /\ req'[r].lookups = req[r].lookups + 1
              /\ ~req[r].confirmed
              /\ req[r].pc \in {"free", "sleep"}
         /\ (req[r].pc = "lookup" /\ req'[r].pc \notin {"lookup", "responded"}) =>
              \/ req'[r].confirmed /\ req'[r].pc = "price"
              \/ ~req'[r].confirmed /\ req'[r].pc = "sleep"
         /\ (req[r].pc = "sleep" /\ req'[r].pc # "sleep") =>
              req'[r].slept = req[r].slept + 2000
         /\ req'[r].slept # req[r].slept => req[r].pc = "sleep"
         /\ req[r].confirmed =>
              /\ req'[r].confirmed
              /\ req'[r].lookups = req[r].lookups
              /\ req'[r].slept = req[r].slept
         /\ (req'[r].confirmed \/ req'[r].pc \in {"lookup", "sleep"}) =>
              req'[r].slept = 2000 * (req'[r].lookups - 1)
         /\ (req'[r].response.hasError /\ req'[r].response.error = MsgNotConfirmed) =>
              /\ req'[r].lookups = StatusPolls
              /\ req'[r].slept = 2000 * StatusPolls
       ]_vars

C29_Witness ==
    \E r, q \in Req :
        /\ req[r].body.solTxSignature = SigB
        /\ req[r].confirmed
        /\ req[r].lookups = 3
        /\ req[r].slept = 4000
        /\ req[q].body.solTxSignature = SigFail
        /\ req[q].lookups = StatusPolls
        /\ req[q].slept = 10000
        /\ req[q].response.status = 400

\* What C30 lists as the validations: the wallet is connected, the amount is
\* at least 0.001 SOL and converts to a finite positive lamport count, the
\* recipient parses as a public key, and the lamports do not exceed the
\* balance.
AllValidationsPass ==
    /\ env.isConnected
    /\ env.smartWalletPubkey # "none"
    /\ AtLeast(parseFloat(gt.amount), Fraction(1, 1000))
    /\ ~TransferLamports(gt.amount).nan
    /\ ~TransferLamports(gt.amount).inf
    /\ NumGt(TransferLamports(gt.amount), Num(0))
    /\ IsPublicKey(gt.recipient)
    /\ AtLeast(BalanceLamports(gt.solBalance), TransferLamports(gt.amount))

ValidationAlerts ==
    {MsgFillAllFields, MsgConnectWalletFirst, MsgInvalidRecipient, MsgInvalidAmount,
     MsgCannotConvertNaN, MsgInsufficientBalance}

\* C30: a step of the transfer form that starts an invocation of the wrapper
\* is a click made when all validations pass, and it submits the transfer of
\* the entered lamports from the wallet to the entered recipient; a click
\* made when some validation fails raises one alert with a validation
\* message and starts no invocation.
C30_SubmitOnlyAfterValidation ==
    [][/\ started' # started =>
            /\ AllValidationsPass
            /\ gt'.clicks = gt.clicks + 1
            /\ gt'.alerts = gt.alerts
            /\ \E i \in Inv :
                 /\ pc[i] = "idle" /\ pc'[i] = "racing"
                 /\ gt'.call[i].pc = "submitting"
                 /\ gt'.call[i].instruction =
                      SystemTransfer(env.smartWalletPubkey, gt.recipient,
                                     TransferLamports(gt.amount))
       /\ (gt'.clicks # gt.clicks /\ ~AllValidationsPass) =>
            /\ started' = started
            /\ pc' = pc /\ log' = log /\ isSubmitting' = isSubmitting
            /\ gt'.call = gt.call
            /\ Len(gt'.alerts) = Len(gt.alerts) + 1
            /\ SubSeq(gt'.alerts, 1, Len(gt.alerts)) = gt.alerts
            /\ gt'.alerts[Len(gt'.alerts)].pieces[1] \in ValidationAlerts
      ]_vars

C30_Witness ==
    \E i \in Inv :
        /\ gt.call[i].pc = "submitting"
        /\ pc[i] = "racing"
        /\ gt.call[i].instruction.lamports = Num(15699999)
        /\ gt.solBalance = Fraction(157, 10000)
        /\ Len(gt.alerts) = 1
        /\ gt.alerts[1].pieces[1] = MsgInsufficientBalance

====
